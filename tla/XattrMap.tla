------------------------------ MODULE XattrMap ------------------------------
(***************************************************************************)
(* xattrmap.rs: the translation of extended attribute names between the    *)
(* guest ("client") and the host ("server").  A name is a sequence of name *)
(* components, so that "starts with" is IsPrefix and "prepend" is \o.  A   *)
(* map is a sequence of rules; the first one that matches decides.         *)
(***************************************************************************)
LOCAL INSTANCE Naturals
LOCAL INSTANCE Sequences
LOCAL INSTANCE SequencesExt

\* Scope::from_bytes: which of the two directions a rule is for.
ScopeOf == [all |-> {"client", "server"}, client |-> {"client"}, server |-> {"server"}]

\* Type::from_bytes.
RuleTypes == {"prefix", "ok", "bad", "unsupported", "map"}

Rule(type, scope, key, prepend) == [type |-> type, scope |-> scope, key |-> key, prepend |-> prepend]

\* Rule::from_tokens: a written rule is <<type, scope, key, prepend>>, or
\* <<"map", key, prepend>>.  FALSE stands for InvalidType, InvalidScope and
\* IncompleteRule.
WellFormed(w) ==
  /\ w # <<>> /\ w[1] \in RuleTypes
  /\ IF w[1] = "map" THEN Len(w) = 3 ELSE Len(w) = 4 /\ w[2] \in DOMAIN ScopeOf

from_tokens(w) ==
  IF w[1] = "map" THEN Rule("map", ScopeOf.all, w[2], w[3]) ELSE Rule(w[1], ScopeOf[w[2]], w[3], w[4])

\* Rule::matches.
matches(r, scope, name) ==
  /\ scope \in r.scope
  /\ IsPrefix(IF scope = "client" THEN r.key ELSE r.prepend, name)

\* Mutant: the rule that hides the mapped namespace from both sides is left out.
expand_unguarded(r) ==
  << Rule("prefix", ScopeOf.all, r.key, r.prepend), Rule("ok", ScopeOf.all, <<>>, <<>>) >>

\* Rule::expand_map_type.
expand_map_type(r) ==
  << Rule("prefix", ScopeOf.all, r.key, r.prepend) >> \o
  IF r.key = <<>>
  THEN << Rule("bad", ScopeOf.all, <<>>, <<>>) >>
  ELSE << Rule("bad", ScopeOf.all, r.prepend, r.key), Rule("ok", ScopeOf.all, <<>>, <<>>) >>

\* XattrMap::try_from: <<>> is the refusal, since a map without rules is one.
try_from(written) ==
  IF /\ \A i \in 1..Len(written) : WellFormed(written[i])
     /\ \A i \in 1..Len(written) : written[i][1] = "map" => i = Len(written)
  THEN FlattenSeq([i \in 1..Len(written) |->
         LET r == from_tokens(written[i])
         IN IF r.type = "map" THEN expand_map_type(r) ELSE << r >>])
  ELSE <<>>

\* XattrMap::find_rule: 0 is UnterminatedMapping, on which the callers panic.
find_rule(rules, scope, name) == SelectInSeq(rules, LAMBDA r : matches(r, scope, name))

\* XattrMap::map_client_xattr: the host's name for a name the guest uses.
map_client_xattr(rules, name) ==
  LET r == rules[find_rule(rules, "client", name)]
  IN CASE r.type = "ok"          -> [rule |-> "Pass", name |-> name]
       [] r.type = "prefix"      -> [rule |-> "Pass", name |-> r.prepend \o name]
       [] r.type = "bad"         -> [rule |-> "Deny"]
       [] r.type = "unsupported" -> [rule |-> "Unsupported"]

\* XattrMap::map_server_xattrlist: the names the guest is shown for the names
\* a host file has.
ShownAs(rules, name) ==
  LET r == rules[find_rule(rules, "server", name)]
  IN CASE r.type \in {"bad", "unsupported"} -> {}
       [] r.type = "ok"                     -> {name}
       [] r.type = "prefix"                 -> {SubSeq(name, Len(r.prepend) + 1, Len(name))}

map_server_xattrlist(rules, names) == UNION {ShownAs(rules, n) : n \in names} \ {<<>>}
-----------------------------------------------------------------------------
\* What a `map` rule promises: a name the guest may use comes back from the
\* host under the same name.  So no two guest names share a host attribute.
ComesBack(key, prepend, name) ==
  LET rules == try_from(<< <<"map", key, prepend>> >>)
      host  == map_client_xattr(rules, name)
  IN host.rule = "Pass" => map_server_xattrlist(rules, {host.name}) = {name}
=============================================================================
