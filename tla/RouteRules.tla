----------------------------- MODULE RouteRules -----------------------------
(***************************************************************************)
(* What Router (src/proxy/router.rs) compares: host names, paths, routes   *)
(* and their rules, when they match a request and with which score, and    *)
(* the order of precedence that its documentation promises.                *)
(*                                                                         *)
(* A host name is its first label and the rest, dot included.  A path is a *)
(* sequence of characters: where a prefix ends depends on their widths.    *)
(***************************************************************************)
EXTENDS Naturals, SequencesExt

CONSTANTS
  Labels,        \* first labels of host names, all in lower case
  Rests,         \* what follows the first label
  NoRest,        \* nothing follows it
  Literals,      \* IPv6 addresses, in brackets
  LeftBracket,   \* the label "["
  NameBytes,     \* [Labels \cup Rests -> Nat]
  Chars, Slash,  \* the characters of paths
  Paths,         \* paths of requests and path values of matches
  PathBytes(_),  \* the length of a path in bytes
  Targets,       \* what a rule may send requests to
  None           \* no route, or no match

Host == [first : Labels, rest : Rests]
Pattern == [kind : {"exact"}, host : Host \cup Literals]
             \cup [kind : {"wildcard"}, rest : Rests \ {NoRest}]
\* A match without a path, or with a type that is not known, is "Unspecified".
\* Headers, query parameters and the method of a match are never read.
PathMatch == [type : {"Exact", "Prefix", "Regex", "Unspecified"}, value : Paths]
Rule == [matches : Seq(PathMatch), backends : Seq(Targets)]
Route == [hostnames : Seq(Pattern), rules : Seq(Rule)]
Match == [route : Route, rule : Nat, score : Nat \X Nat]

ASSUME NamesAssumption ==
  /\ NoRest \in Rests
  /\ LeftBracket \in Labels
  /\ NameBytes \in [Labels \cup Rests -> Nat]
  /\ Literals \cap Host = {}

ASSUME PathsAssumption ==
  /\ Paths \subseteq Seq(Chars)
  /\ \A s \in Paths : PathBytes(s) \in Nat
  /\ \A s, t \in Paths : IsStrictPrefix(s, t) => PathBytes(s) < PathBytes(t)

ASSUME NoneAssumption == None \notin Route \cup Match \cup [route : Route, rule : Nat]

-----------------------------------------------------------------------------
\* extract_host_for_routing, which leaves an address in its brackets, and then
\* normalize_hostname, which cuts at the first colon.  Ports are gone by then.
Normalize(name) ==
  IF name \in Literals THEN [first |-> LeftBracket, rest |-> NoRest] ELSE name

\* A wildcard stands for exactly one label, and not for an empty one.
HostnameMatches(p, h) ==
  \/ p.kind = "exact" /\ p.host = h
  \/ p.kind = "wildcard" /\ p.rest = h.rest /\ NameBytes[h.first] > 0

HostnameScore(p) ==
  IF p.kind = "wildcard" THEN NameBytes[p.rest] + 1
  ELSE NameBytes[p.host.first] + NameBytes[p.host.rest] + 1000

\* The scores that best_hostname_score takes the greatest of.
HostScores(r, h) ==
  IF r.hostnames = <<>> THEN {0}
  ELSE {HostnameScore(p) : p \in {q \in Range(r.hostnames) : HostnameMatches(q, h)}}

\* Mutant of PrefixMatches: the prefix may end inside a segment.
PrefixMatchesInside(s, t) == IsPrefix(s, t)

\* The character after the prefix is looked up by the length of the prefix in
\* bytes.
PrefixMatches(s, t) ==
  \/ s = t
  \/ /\ IsPrefix(s, t)
     /\ \/ s # <<>> /\ Last(s) = Slash
        \/ PathBytes(s) < Len(t) /\ t[PathBytes(s) + 1] = Slash

PathMatches(m, t) ==
  \/ m.type = "Exact" /\ m.value = t
  \/ m.type \in {"Prefix", "Regex"} /\ PrefixMatches(m.value, t)
  \/ m.type = "Unspecified"

Base == [Exact |-> 10000, Prefix |-> 1000, Regex |-> 500, Unspecified |-> 0]
PathScore(m) ==
  IF m.type \in {"Exact", "Prefix"} THEN Base[m.type] + PathBytes(m.value) ELSE Base[m.type]

\* The scores that best_path_score takes the greatest of.
PathScores(u, t) ==
  IF u.matches = <<>> THEN {0}
  ELSE {PathScore(m) : m \in {n \in Range(u.matches) : PathMatches(n, t)}}

\* Mutant of Higher: a later rule with the same scores wins.
HigherOrEqual(s, t) == s[1] > t[1] \/ (s[1] = t[1] /\ s[2] >= t[2])

Higher(s, t) == s[1] > t[1] \/ (s[1] = t[1] /\ s[2] > t[2])

-----------------------------------------------------------------------------
(* The order of precedence that the documentation of Router promises, told *)
(* without scores: "Hostname: Exact > Wildcard > Empty (match all)" and    *)
(* "Path: Exact > Prefix (longer wins) > Regex".                           *)

HostApplies(r, h) ==
  r.hostnames = <<>> \/ \E p \in Range(r.hostnames) : HostnameMatches(p, h)
PathApplies(u, t) ==
  u.matches = <<>> \/ \E m \in Range(u.matches) : PathMatches(m, t)
Applies(r, i, h, t) ==
  HostApplies(r, h) /\ r.rules[i].backends # <<>> /\ PathApplies(r.rules[i], t)

By(r, kind, h) == \E p \in Range(r.hostnames) : p.kind = kind /\ HostnameMatches(p, h)
HostRank(r, h) ==
  IF By(r, "exact", h) THEN 2 ELSE IF By(r, "wildcard", h) THEN 1 ELSE 0

\* The values of the matches of a type that apply.
Values(u, type, t) ==
  {m.value : m \in {n \in Range(u.matches) : n.type = type /\ PathMatches(n, t)}}
PathRank(u, t) ==
  IF Values(u, "Exact", t) # {} THEN 3
  ELSE IF Values(u, "Prefix", t) # {} THEN 2
  ELSE IF Values(u, "Regex", t) # {} THEN 1 ELSE 0
LongerPrefix(u, v, t) ==
  \E s \in Values(u, "Prefix", t) : \A w \in Values(v, "Prefix", t) : Len(s) > Len(w)

\* Rule i of route r takes precedence over rule j of route q.
Outranks(r, i, q, j, h, t) ==
  LET u == r.rules[i]
      v == q.rules[j]
  IN
  \/ HostRank(r, h) > HostRank(q, h)
  \/ /\ HostRank(r, h) = HostRank(q, h)
     /\ \/ PathRank(u, t) > PathRank(v, t)
        \/ PathRank(u, t) = 2 /\ PathRank(v, t) = 2 /\ LongerPrefix(u, v, t)

\* Match m is the one that the precedence puts first for host h and path t among
\* the routes of T, or None when no rule of theirs applies.
IsFirst(m, T, h, t) ==
  IF m = None
  THEN \A r \in T : \A i \in DOMAIN r.rules : ~Applies(r, i, h, t)
  ELSE /\ m.route \in T
       /\ m.rule \in DOMAIN m.route.rules
       /\ Applies(m.route, m.rule, h, t)
       /\ \A r \in T : \A i \in DOMAIN r.rules :
            Applies(r, i, h, t) =>
              /\ ~Outranks(r, i, m.route, m.rule, h, t)
              /\ r = m.route /\ i < m.rule => Outranks(m.route, m.rule, r, i, h, t)
=============================================================================
