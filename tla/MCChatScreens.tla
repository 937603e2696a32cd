---------------------------- MODULE MCChatScreens ----------------------------
(* ChatScreens for TLC: the names of its chats are model values. *)
EXTENDS ChatScreens
==============================================================================
