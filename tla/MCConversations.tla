------------------------- MODULE MCConversations -------------------------
EXTENDS Conversations

\* A new Conversation, where one more outside event is left; or one with a question left by an
\* earlier Run, where both are.
NewOrAsked == {[asked |-> FALSE, disturbed |-> 1], [asked |-> TRUE, disturbed |-> 0]}
=============================================================================
