------------------------------- MODULE MCCimd -------------------------------
(***************************************************************************)
(* Instances of CimdCache for TLC: the answers, headers and address sets   *)
(* the configurations MCCimd*.cfg choose from.                             *)
(***************************************************************************)
EXTENDS CimdCache, TLC

CONSTANTS k1, k2, ip1, ip2, bad, w1, w2, v1, v2

MaxAge(n) == [name |-> "max-age", value |-> n]
NoStore == [name |-> "no-store", value |-> None]

\* max-age=-1, max-age beyond the bound, no-store alone, a malformed max-age
\* before a good one, no header.
SomeHeaders == {<<MaxAge(-1)>>, <<MaxAge(9)>>, <<NoStore>>, <<MaxAge(None), MaxAge(2)>>, None}

Good(v, h) ==
  [ver |-> v, ok |-> TRUE, clientId |-> k1, secret |-> FALSE,
   uris |-> {w1, w2}, header |-> h]

\* Two versions of a sound document under every header, and one of each defect.
SomeAnswers ==
  {Good(v1, <<MaxAge(-1)>>), Good(v2, <<MaxAge(9)>>), Good(v2, None),
   [Good(v1, None) EXCEPT !.ok = FALSE],
   [Good(v1, <<NoStore>>) EXCEPT !.secret = TRUE],
   [Good(v1, None) EXCEPT !.uris = {w2}],
   [Good(v2, <<MaxAge(None), MaxAge(2)>>) EXCEPT !.clientId = k2]}

SomeRecords == {{}, {ip1, ip2}, {ip1, bad}}

MixedHeaders == {<<NoStore, MaxAge(3)>>}
MixedAnswers == {Good(v1, <<NoStore, MaxAge(3)>>)}
SafeRecords == {{ip1}}

RequestSymmetry == Permutations(Requests)
=============================================================================
