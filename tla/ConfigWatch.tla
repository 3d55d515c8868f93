----------------------------- MODULE ConfigWatch -----------------------------
(***************************************************************************)
(* The configuration: config.init calls Watch for the license and then for *)
(* the config map of the service.  Watch merges the files of a config map  *)
(* into the configuration, opens a stream of its changes, and leaves a     *)
(* goroutine behind that merges each change.  After a merge the variants,  *)
(* copies of a few fields in variables of their own, are set anew, without *)
(* the mutex of the configuration.                                         *)
(***************************************************************************)
EXTENDS Naturals, Sequences, SequencesExt

CONSTANTS
  Maps, Keys, \* the config maps and the names of their files
  Plans,      \* the calls of Watch: sequences of records of map and keys
  Fields,     \* the fields of the files
  Content,    \* the file of a config map under a key, at each version
  Variant,    \* the field that has a variant
  MaxVersion, \* bound: the versions of each config map
  Main, NoValue

Versions == Nat \ {0}

\* A file is a map with fields; YAML of no fields ("void": empty or malformed);
\* malformed JSON ("unread"); or not there ("absent").
Shapes == {"map", "void", "unread", "absent"}

ASSUME ConfigWatchAssumption ==
  /\ Plans \subseteq Seq([map : Maps, keys : Seq(Keys) \ {<<>>}])
  /\ Content \in [Maps -> [Keys -> Seq([shape : Shapes, fields : SUBSET Fields])]]
  /\ \A m \in Maps, k \in Keys :
       /\ Len(Content[m][k]) >= MaxVersion[m]
       /\ \A v \in DOMAIN Content[m][k] :
            Content[m][k][v].shape # "map" => Content[m][k][v].fields = {}
  /\ Variant \in Fields /\ MaxVersion \in [Maps -> Versions]
  /\ Main \notin Maps /\ NoValue \notin [file : Maps \X Keys, version : Versions]

VARIABLES
  plan,     \* the calls of Watch
  version,  \* of each config map in Kubernetes
  stream,   \* the changes on their way to the goroutine of a config map
  open,     \* the config maps whose stream has not ended
  monitor,  \* the keys that are watched of each config map
  shape,    \* the configuration o: "none" when nil, "void", or "map"
  config,   \* the value of each field: the file and the version it is from
  variant,  \* the copy of the field Variant
  doing,    \* what main, and the goroutine of each config map, are doing
  raced,    \* two have set the variants at the same time
  wiped,    \* a merge has lost the configuration
  dead      \* the process has ended

configVars == <<plan, version, stream, open, monitor, shape, config, variant, doing, raced,
                wiped, dead>>

Actors == Maps \cup {Main}

Values == [file : Maps \X Keys, version : Versions] \cup {NoValue}

Doing == [at : {"idle", "add", "merge", "read", "write", "open"}, call : Nat,
          known : SUBSET Keys, todo : Seq(Keys), version : Nat, value : Values]

ConfigInit ==
  /\ plan \in Plans
  /\ version = [m \in Maps |-> 1] /\ stream = [m \in Maps |-> <<>>] /\ open = {}
  /\ monitor = [m \in Maps |-> <<>>]
  /\ shape = "none" /\ config = [f \in Fields |-> NoValue] /\ variant = NoValue
  /\ doing = [a \in Actors |->
                [at |-> "idle", call |-> 1, known |-> {}, todo |-> <<>>, version |-> 0,
                 value |-> NoValue]]
  /\ raced = FALSE /\ wiped = FALSE /\ dead = FALSE

At(a, s) == ~dead /\ doing[a].at = s

Go(a, s) == doing' = [doing EXCEPT ![a].at = s]

Call == doing[Main].call

Calling == Call <= Len(plan)

\* The config map that an actor is at work on.
MapOf(a) == IF a = Main THEN plan[Call].map ELSE a

Returns == doing' = [doing EXCEPT ![Main].at = "idle", ![Main].call = @ + 1]

---------------------------------------------------------------------------
(* Merge *)

\* Merge keeps what the new value lacks; of values of two types nothing is left.
\* "unread" files are not merged.
KeepsOld(old, new) == IF old = NoValue THEN new ELSE old

Overrides(old, new) == new

Merged(file, v, new) ==
  CASE new.shape = "unread" -> UNCHANGED <<shape, config, wiped>>
    [] new.shape # "unread" /\ shape = "none" ->
         /\ shape' = new.shape
         /\ config' = [f \in Fields |->
                         IF f \in new.fields THEN [file |-> file, version |-> v] ELSE NoValue]
         /\ wiped' = wiped
    [] new.shape = "map" /\ shape = "map" ->
         /\ config' = [f \in Fields |->
                         IF f \in new.fields
                         THEN Overrides(config[f], [file |-> file, version |-> v])
                         ELSE config[f]]
         /\ UNCHANGED <<shape, wiped>>
    [] OTHER ->
         /\ shape' = "none" /\ wiped' = TRUE
         /\ config' = [f \in Fields |-> NoValue]

---------------------------------------------------------------------------
(* Watch, as main calls it *)

StartWatch ==
  /\ At(Main, "idle") /\ Calling
  /\ LET watched == ToSet(monitor[MapOf(Main)]) IN
       doing' = [doing EXCEPT ![Main].at = IF watched = {} THEN "merge" ELSE "add",
                              ![Main].known = watched, ![Main].todo = plan[Call].keys]
  /\ UNCHANGED <<plan, version, stream, open, monitor, shape, config, variant, raced, wiped, dead>>

\* A config map that is watched already gets the keys added that are new, one by
\* one, and that is all.
IsNew(k) == k \notin doing[Main].known

AddKey ==
  /\ At(Main, "add") /\ doing[Main].todo # <<>>
  /\ LET k == Head(doing[Main].todo) IN
       monitor' = [monitor EXCEPT ![MapOf(Main)] = IF IsNew(k) THEN Append(@, k) ELSE @]
  /\ doing' = [doing EXCEPT ![Main].todo = Tail(@)]
  /\ UNCHANGED <<plan, version, stream, open, shape, config, variant, raced, wiped, dead>>

AddedAll ==
  /\ At(Main, "add") /\ doing[Main].todo = <<>>
  /\ Returns
  /\ UNCHANGED <<plan, version, stream, open, monitor, shape, config, variant, raced, wiped, dead>>

\* A key that is not there has no data, which is then parsed.
LoadKey ==
  /\ At(Main, "merge") /\ doing[Main].todo # <<>>
  /\ LET k == Head(doing[Main].todo)
         v == version[MapOf(Main)]
         file == Content[MapOf(Main)][k][v]
     IN \/ file.shape # "absent" /\ Merged(<<MapOf(Main), k>>, v, file)
        \/ file.shape = "absent" /\ Merged(<<MapOf(Main), k>>, v, [file EXCEPT !.shape = "void"])
        \/ UNCHANGED <<shape, config, wiped>>  \* an error, or no data for JSON
  /\ doing' = [doing EXCEPT ![Main].todo = Tail(@)]
  /\ UNCHANGED <<plan, version, stream, open, monitor, variant, raced, dead>>

OpenStream ==
  /\ At(Main, "open") /\ Calling
  /\ \/ UNCHANGED <<stream, open, monitor>>  \* an error
     \/ /\ stream' = [stream EXCEPT ![MapOf(Main)] = <<version[MapOf(Main)]>>]
        /\ open' = open \cup {MapOf(Main)}
        /\ monitor' = [monitor EXCEPT ![MapOf(Main)] = plan[Call].keys]
  /\ Returns
  /\ UNCHANGED <<plan, version, shape, config, variant, raced, wiped, dead>>

\* The end of config.init, after the calls of Watch.
FinalVariants ==
  /\ At(Main, "idle") /\ Call = Len(plan) + 1
  /\ Go(Main, "read")
  /\ UNCHANGED <<plan, version, stream, open, monitor, shape, config, variant, raced, wiped, dead>>

---------------------------------------------------------------------------
(* initConfigVariants, by any of them *)

InVariants == {a \in Actors : doing[a].at \in {"read", "write"}}

\* Watch sets the variants once, when all its keys are merged.
LoadedAll ==
  /\ At(Main, "merge") /\ doing[Main].todo = <<>>
  /\ Go(Main, "read")
  /\ UNCHANGED <<plan, version, stream, open, monitor, shape, config, variant, raced, wiped, dead>>

ReadVariant(a) ==
  /\ At(a, "read")
  /\ doing' = [doing EXCEPT ![a].at = "write", ![a].value = config[Variant]]
  /\ raced' = (raced \/ InVariants # {a})
  /\ UNCHANGED <<plan, version, stream, open, monitor, shape, config, variant, wiped, dead>>

WriteVariant(a) ==
  /\ At(a, "write")
  /\ variant' = doing[a].value
  /\ IF a # Main THEN Go(a, "merge") ELSE IF Calling THEN Go(a, "open") ELSE Returns
  /\ raced' = (raced \/ InVariants # {a})
  /\ UNCHANGED <<plan, version, stream, open, monitor, shape, config, wiped, dead>>

---------------------------------------------------------------------------
(* The goroutine that Watch leaves behind *)

TakeAnyEvent(m) ==
  /\ At(m, "idle")
  /\ \E i \in DOMAIN stream[m] :
       /\ doing' = [doing EXCEPT ![m].at = "merge", ![m].todo = monitor[m],
                                 ![m].version = stream[m][i]]
       /\ stream' = [stream EXCEPT ![m] = RemoveAt(@, i)]
  /\ UNCHANGED <<plan, version, open, monitor, shape, config, variant, raced, wiped, dead>>

TakeEvent(m) ==
  /\ At(m, "idle") /\ stream[m] # <<>>
  /\ doing' = [doing EXCEPT ![m].at = "merge", ![m].todo = monitor[m],
                            ![m].version = Head(stream[m])]
  /\ stream' = [stream EXCEPT ![m] = Tail(@)]
  /\ UNCHANGED <<plan, version, open, monitor, shape, config, variant, raced, wiped, dead>>

\* The variants are set anew after each key.
AfterMerge(m) == "read"

MergeKey(m) ==
  /\ At(m, "merge") /\ doing[m].todo # <<>>
  /\ LET k == Head(doing[m].todo)
         file == Content[m][k][doing[m].version]
     IN /\ IF file.shape = "absent" THEN UNCHANGED <<shape, config, wiped>>
           ELSE Merged(<<m, k>>, doing[m].version, file)
        /\ doing' = [doing EXCEPT ![m].todo = Tail(@),
                       ![m].at = IF file.shape \in {"absent", "unread"} THEN "merge"
                                 ELSE AfterMerge(m)]
  /\ UNCHANGED <<plan, version, stream, open, monitor, variant, raced, dead>>

EventDone(m) ==
  /\ At(m, "merge") /\ doing[m].todo = <<>>
  /\ Go(m, "idle")
  /\ UNCHANGED <<plan, version, stream, open, monitor, shape, config, variant, raced, wiped, dead>>

---------------------------------------------------------------------------
(* Kubernetes *)

Change(m) ==
  /\ ~dead /\ version[m] < MaxVersion[m]
  /\ version' = [version EXCEPT ![m] = @ + 1]
  /\ stream' = [stream EXCEPT ![m] = IF m \in open THEN Append(@, version[m] + 1) ELSE @]
  /\ UNCHANGED <<plan, open, monitor, shape, config, variant, doing, raced, wiped, dead>>

\* The API server ends a stream after a while, and nothing opens another; the
\* end of Run ends the goroutine too.
EndStream(m) ==
  /\ ~dead /\ m \in open
  /\ open' = open \ {m}
  /\ UNCHANGED <<plan, version, stream, monitor, shape, config, variant, doing, raced, wiped, dead>>

\* monitor is a map that main writes and the goroutines read, without a mutex.
MonitorRace ==
  /\ \/ At(Main, "open")
     \/ At(Main, "add") /\ doing[Main].todo # <<>> /\ IsNew(Head(doing[Main].todo))
  /\ \E m \in Maps : At(m, "idle") /\ stream[m] # <<>>
  /\ dead' = TRUE
  /\ UNCHANGED <<plan, version, stream, open, monitor, shape, config, variant, doing, raced, wiped>>

ConfigNext ==
  \/ StartWatch \/ AddKey \/ AddedAll \/ LoadKey \/ LoadedAll \/ OpenStream \/ FinalVariants
  \/ MonitorRace
  \/ \E a \in Actors : ReadVariant(a) \/ WriteVariant(a)
  \/ \E m \in Maps : TakeEvent(m) \/ MergeKey(m) \/ EventDone(m) \/ Change(m) \/ EndStream(m)

ConfigSpec == ConfigInit /\ [][ConfigNext]_configVars

---------------------------------------------------------------------------
ConfigTypeOK ==
  /\ plan \in Plans
  /\ version \in [Maps -> Versions] /\ \A m \in Maps : version[m] <= MaxVersion[m]
  /\ stream \in [Maps -> Seq(Versions)] /\ open \subseteq Maps
  /\ monitor \in [Maps -> Seq(Keys)]
  /\ shape \in {"none", "void", "map"} /\ config \in [Fields -> Values] /\ variant \in Values
  /\ doing \in [Actors -> Doing]
  /\ raced \in BOOLEAN /\ wiped \in BOOLEAN /\ dead \in BOOLEAN

\* A field never goes back to an earlier version of the file it is from: what is
\* read at the start is no later than what the stream tells (configmap.go:196-259).
NoStepBack ==
  [][\A f \in Fields : config[f] # NoValue /\ config'[f] # NoValue
       /\ config'[f].file = config[f].file => config'[f].version >= config[f].version]_configVars

Settled(m) == m \in open /\ stream[m] = <<>> /\ doing[m].at = "idle" /\ ~dead

Watched(m) == {k \in Keys : \A i \in DOMAIN plan : plan[i].map = m => k \in ToSet(plan[i].keys)}

ConfigFollows ==
  \A m \in Maps : Settled(m) /\ ~wiped =>
    \A k \in Watched(m) : LET file == Content[m][k][version[m]] IN
      file.shape = "map" => \A f \in file.fields :
        /\ config[f] # NoValue
        /\ config[f].file = <<m, k>> => config[f].version = version[m]

VariantFollows ==
  (\A a \in Actors : doing[a].at = "idle") /\ ~raced => variant = config[Variant]

\* Once the changes of a config map are merged, each field of the files that are
\* watched has the current value, or one of another file, as long as no merge
\* has lost the configuration and the stream lasts (configmap.go:236-266).  With
\* nobody at work a variant is the field it is a copy of, unless two have set
\* the variants at once: then the older value may stay (configmap.go:264).
Follows == ConfigFollows /\ VariantFollows
=============================================================================
