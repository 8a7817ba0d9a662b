-------------------------- MODULE MCServiceBrowser --------------------------
(* Instances of ServiceBrowser for TLC.                                    *)
EXTENDS ServiceBrowser

CONSTANTS ann, bob

MCLists == {{}, {1, 2}}
MCFullLists == {{1, 2}}
=============================================================================
