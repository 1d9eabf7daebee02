----------------------------- MODULE MCNetplay -----------------------------
(* The values TLC gives to the constants of Netplay.                       *)
EXTENDS Netplay

\* One symbolic press per capture: the protocol only copies and compares
\* inputs, so distinct tags tell every mix-up apart.
MCPad(s, e, t) == {<<s, e, t>>}
MCIdle == <<2, 0, 0>>
MCInputs == {MCIdle} \cup (Seats \X (0 .. 4) \X (0 .. 40))

\* Where divergences are injected: anywhere, or in the guest's checked chunk.
AllSites == Seats \X Parts
GuestSite == {1} \X CrcParts
=============================================================================
