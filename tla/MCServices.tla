----------------------------- MODULE MCServices -----------------------------
(***************************************************************************)
(* The catalogue, the senders, the links that a pod accepts, the queries   *)
(* and the linked messages, for TLC.  These parts share no state: a        *)
(* behaviour is one of a part, and the others stay as they are.            *)
(***************************************************************************)
EXTENDS Catalogue, ThirdParty, AcceptedLinks, Queries, LinkedMessages, TLC

CONSTANTS c1, c2, c3, k1, s1, s2, n1, a1, a2, u1, u2, t1, t2, l1, l2, l3, g1, g2, g3, o1

VARIABLE part

\* Application a1 has a class, a template and a scene in a relation, a2 a
\* listening class; its relations use that, and a class that is not there yet.
UsesPush == {<<"class", <<c1>>>>, <<"template", <<k1>>>>}
UsesList == {<<"class", <<c2>>>>, <<"template", <<k1>>>>}
UsesNew == {<<"class", <<c3>>>>, <<"template", <<k1>>>>}

MCInitial ==
  {Document(1, "class", <<c1>>, a1, "push"), Document(2, "template", <<k1>>, a1, ""),
   [Document(3, "relation", <<s1>>, a1, "") EXCEPT !.uses = UsesPush],
   Document(4, "class", <<c2>>, a2, "listening"),
   [Document(5, "relation", <<n1>>, a2, "") EXCEPT !.uses = UsesList],
   [Document(6, "relation", <<s2>>, a2, "") EXCEPT !.uses = UsesNew]}

MCInputs ==
  {[Input("copy", "relation", NoKey, a2, "") EXCEPT !.from = a1, !.force = f] : f \in BOOLEAN}
  \cup {[Input("copy", "relation", NoKey, a1, "") EXCEPT !.from = a1, !.force = TRUE]}
  \cup {Input("create", "class", <<c3>>, a1, "listening"), Input("delete", "class", <<c2>>, NoApp, ""),
        Input("update", "class", <<c2>>, NoApp, "push"), Input("subscribe", "class", <<c2>>, NoApp, ""),
        Input("send", "relation", <<n1>>, a2, ""), Input("send", "relation", <<s2>>, a2, ""),
        [Input("create", "relation", <<s1>>, a2, "") EXCEPT !.uses = UsesList],
        Input("create", "scene", <<n1>>, a1, ""), Input("create", "template", <<k1>>, a1, ""),
        [Input("create", "class", <<c2>>, NoApp, "") EXCEPT !.parent = <<c1>>],
        Input("update", "class", <<c1>>, NoApp, "listening"), Input("update", "template", <<k1>>, a2, ""),
        Input("update", "scene", <<n1>>, a1, ""),
        [Input("update", "relation", <<s1>>, a1, "") EXCEPT !.uses = UsesList],
        Input("delete", "template", <<k1>>, NoApp, ""), Input("delete", "scene", <<n1>>, a1, ""),
        Input("delete", "relation", <<s1>>, a1, ""), Input("get", "class", <<c1>>, NoApp, ""),
        Input("get", "template", <<k1>>, NoApp, ""), Input("get", "scene", <<n1>>, a1, ""),
        Input("get", "relation", <<s1>>, a1, "")}

\* Two users of two tenants: one account is not the first, one is the last.
MCAccounts == u1 :> <<"feishu", "dingtalk">> @@ u2 :> <<"dingtalk", "jumeaux">>
MCTenantOf == u1 :> t1 @@ u2 :> t2

\* Two links of one application, and one of another pod.
MCAppOf == l1 :> a1 @@ l2 :> a1 @@ l3 :> FromPod

\* Three documents of each kind; messages of a class g1 have three subclasses,
\* of which g3 is exclusive.
MCContents ==
  [k \in {"class", "template", "scene", "relation"} |->
     {Doc(i, i, g1, g1, {}) : i \in 1 .. 3}] @@
  "message" :> {Doc(1, 1, g1, g2, {o1}), Doc(2, 2, g1, g3, {o1}), Doc(3, 3, g1, g1, {o1})}

MCFillings ==
  [k \in {"class", "template", "scene", "relation"} |-> {Doc(0, 0, g1, g1, {})}]
    @@ "message" :> {Doc(0, 0, g1, g3, {})}

\* Nobody, one, three receivers, one named twice with and without another between.
MCLists == {<<>>, <<u1>>, <<u1, u2, o1>>, <<u1, u1>>, <<u1, u2, u1>>}
MCStyles == [mode : {"push", "pull"}, persist : BOOLEAN]

\* The types of all parts; their modules have one part each.
ServicesTypeOK == CatalogueTypeOK /\ ThirdPartyTypeOK /\ LinksTypeOK /\ QueriesTypeOK /\ LinkedTypeOK

vars == <<catalogueVars, thirdPartyVars, linksVars, queriesVars, linkedVars, part>>

Init ==
  /\ part \in {"catalogue", "senders", "links", "queries", "linked"}
  /\ CatalogueInit /\ ThirdPartyInit /\ LinksInit /\ QueriesInit /\ LinkedInit
  /\ part # "senders" => record = [p \in Platforms |-> NoRecord]
  /\ part # "catalogue" => indexed
  /\ part # "linked" => list = <<>> /\ style = [mode |-> "pull", persist |-> TRUE]
  /\ part # "queries" => walk.kind = "scene" /\ walk.byTotal

Next ==
  /\ UNCHANGED part
  /\ \/ part = "catalogue" /\ CatalogueNext
        /\ UNCHANGED <<thirdPartyVars, linksVars, queriesVars, linkedVars>>
     \/ part = "senders" /\ ThirdPartyNext
        /\ UNCHANGED <<catalogueVars, linksVars, queriesVars, linkedVars>>
     \/ part = "links" /\ LinksNext
        /\ UNCHANGED <<catalogueVars, thirdPartyVars, queriesVars, linkedVars>>
     \/ part = "queries" /\ QueriesNext
        /\ UNCHANGED <<catalogueVars, thirdPartyVars, linksVars, linkedVars>>
     \/ part = "linked" /\ LinkedNext
        /\ UNCHANGED <<catalogueVars, thirdPartyVars, linksVars, queriesVars>>

Spec == Init /\ [][Next]_vars
=============================================================================
