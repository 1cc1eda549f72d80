-------------------------- MODULE MCChatController --------------------------
(***************************************************************************)
(* Instances of ChatController for TLC.                                    *)
(***************************************************************************)
EXTENDS ChatController

=============================================================================
