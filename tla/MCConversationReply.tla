------------------------ MODULE MCConversationReply ------------------------
(* Two replicas that both take themselves for the holder of the chat lock.  *)
EXTENDS ConversationReply, TLC

CONSTANTS a, b

Alike == Permutations({a, b})
=============================================================================
