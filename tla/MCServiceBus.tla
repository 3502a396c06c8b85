---------------------------- MODULE MCServiceBus ----------------------------
(* Values of the constants of ServiceBus for TLC.                            *)
EXTENDS ServiceBus

CONSTANTS c1

MCQueues == {<<"q">>}

\* The second topic's name begins with the first's.
MCTopics == {<<"t">>, <<"t", "u">>}
MCSubscriptions == {<<<<"t">>, <<"s">>>>, <<<<"t">>, <<"r">>>>, <<<<"t", "u">>, <<"s">>>>}
=============================================================================
