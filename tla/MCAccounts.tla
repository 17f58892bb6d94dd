----------------------------- MODULE MCAccounts -----------------------------
(* Accounts for TLC: two administrators who have both signed in, and the    *)
(* accounts they may create.                                                *)
EXTENDS Accounts, TLC

CONSTANTS x, y, adams, baker   \* the browsers and the administrators

MCSignedIn == x :> adams @@ y :> baker
=============================================================================
