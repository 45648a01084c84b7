--------------------------- MODULE MCRouteMatching ---------------------------
(* Routes that compete for the same requests, and those of the unit tests. *)
EXTENDS RouterTests, TLC

CONSTANTS api, www, empty, bracket, ex, long, addr, c, e, b

\* One rest is longer than the base of exact names.
MCNameBytes == empty :> 0 @@ bracket :> 1 @@ NoRest :> 0 @@ long :> 1200
                 @@ [n \in Labels \cup Rests |-> 3]

\* The character e takes two bytes.
MCPathBytes(s) == FoldLeft(LAMBDA n, ch : n + (IF ch = e THEN 2 ELSE 1), 0, s)

S == Slash
C == <<S, c>>
CC == <<S, c, S, c>>
AsciiPaths == {Root, C, CC, <<S, c, c>>}
TestPaths == {Api, ApiSlash, ApiKeys, ApiV1Users, Other} \cup
               {Under(s) : s \in {"v1", "v2", "users", "health"}}
MCPaths == AsciiPaths \cup TestPaths
WidePaths == {<<S, e>>, <<S, e, S, c>>, <<S, e, c, S>>}

Exact(first, rest) == [kind |-> "exact", host |-> [first |-> first, rest |-> rest]]
Wildcard(rest) == [kind |-> "wildcard", rest |-> rest]
M(type, value) == [type |-> type, value |-> value]
To(matches) == [matches |-> matches, backends |-> <<b>>]

Nowhere == [matches |-> <<M("Exact", C)>>, backends |-> <<>>]
Mixed == To(<<M("Regex", Root), M("Prefix", C), M("Unspecified", Root)>>)

MCRoutes == {
  [hostnames |-> <<Exact(api, ex), Wildcard(long)>>,
   rules |-> <<Nowhere, To(<<M("Prefix", C)>>), Mixed>>],
  [hostnames |-> <<Wildcard(ex), Exact(api, long)>>,
   rules |-> <<To(<<M("Regex", C)>>), To(<<M("Exact", CC)>>)>>],
  [hostnames |-> <<[kind |-> "exact", host |-> addr], Exact(api, ex)>>,
   rules |-> <<To(<<M("Prefix", C)>>), To(<<M("Prefix", CC)>>)>>],
  [hostnames |-> <<>>,
   rules |-> <<To(<<>>), To(<<M("Unspecified", C)>>)>>]}

Names == [first : {api, www, empty, bracket}, rest : {NoRest, ex, long}] \cup Literals
MCCalls == Names \X AsciiPaths \X SUBSET MCRoutes \cup TestCalls

WideTable == {[hostnames |-> <<>>, rules |-> <<To(<<M("Prefix", <<S, e>>)>>)>>]}
MCWideCalls == Names \X WidePaths \X {WideTable}
=============================================================================
