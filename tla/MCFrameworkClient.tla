------------------------- MODULE MCFrameworkClient -------------------------
(* The framework manager's client with its three request topics.             *)
EXTENDS FrameworkClient

MCTopics == <<"register", "devices", "deregister">>
=============================================================================
