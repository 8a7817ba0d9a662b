------------------------ MODULE MCRuleRequestDialog ------------------------
(* Instances of RuleRequestDialog for TLC.                                 *)
EXTENDS RuleRequestDialog

CONSTANTS a, b, s, t

(* The destinations lose a domain name in the second policy.               *)
MCRuleValues ==
  <<[sources |-> {"net"}, destinations |-> {"net", "dns"}, protocols |-> {"net"}],
    [sources |-> {"net"}, destinations |-> {"net"}, protocols |-> {"net"}]>>
=============================================================================
