---------------------------- MODULE MCChatRoom ----------------------------
(***************************************************************************)
(* Small instances of ChatRoom.                                            *)
(***************************************************************************)
EXTENDS ChatRoom, TLC

CONSTANTS ann, bob,          \* devices
          annPk, bobPk       \* their users

MCDevices     == {ann, bob}
MCPks         == {annPk, bobPk}
MCPkOf        == ann :> annPk @@ bob :> bobPk
MCFounders    == {annPk}
\* A second founder, on no device here, whose picture does not load.
MCTwoFounders == {annPk, bobPk}
MCBroken      == {bobPk}
MCJoinjangs   == {ann}
\* bob's clock is one second ahead.
MCClockOffset == ann :> 0 @@ bob :> 1
\* As built, the profile screen gives every device the same user
\* (didTapNextButton:145).
MCOnePk       == [d \in MCDevices |-> annPk]
=============================================================================
