----------------------------- MODULE MCRelayGlobal -----------------------------
(* Two sessions and the commands that differ in what they do to the policy *)
(* and to validation.                                                      *)
EXTENDS RelayGlobal

CONSTANTS s1, s2

\* dhcp-relay option 82 keep, validate, drop validate; no dhcp-relay
Representative ==
       Commands({Option82}, {"disabled", Validation}, {"KEEP"}, {"INVALID"})
  \cup Commands({Option82, Validation}, {"disabled"}, {"INVALID"}, {"INVALID"})
  \cup Commands({Option82, Validation}, {}, {"DROP"}, {"INVALID"})
  \cup Commands({"disabled"}, {Option82, Validation}, {"REPLACE"}, {"MAC"})
=============================================================================
