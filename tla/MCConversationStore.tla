------------------------- MODULE MCConversationStore -------------------------
EXTENDS ConversationStore
=============================================================================
