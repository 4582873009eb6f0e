-------------------------- MODULE ExternprotoLoading --------------------------
(***************************************************************************)
(* EXTERNPROTOs (local/parse_vrml.h, local/externproto.cpp): a declaration *)
(* finds the metatype that the browser's registry has for its URL, or      *)
(* makes one, whose thread loads the file with the PROTO while parsers go  *)
(* on to make types of the metatype and nodes of the types.  When the      *)
(* PROTO is there, the thread replaces the nodes that wait for it.         *)
(*                                                                         *)
(* Of a file there are its EXTERNPROTOs, which have one URL each, its      *)
(* PROTOs, with one node in the body, and the types of its root nodes.  A  *)
(* URL is the sequence of a file and the names in its fragment, which is   *)
(* also what path(scope) makes.  An EXTERNPROTO's URL is resolved twice:   *)
(* its parser reads url, its thread wants.  If they differ it is relative, *)
(* otherwise absolute.                                                     *)
(***************************************************************************)
EXTENDS Naturals, Sequences, FiniteSetsExt, Functions

CONSTANTS
  Openers,      \* the threads that load a world or an Inline
  Webs,         \* the webs of files: the one that each opener opens, the statements of each,
                \* whether a stream's url keeps its fragment, and a bound on the metatypes
  MaxMetatypes  \* bound: the metatypes that EXTERNPROTOs make

Loaders == 1 .. MaxMetatypes  \* a metatype and its load_proto_thread_
Threads == Openers \cup Loaders

IsUrl(url) == url \in Seq(Range(url)) \ {<< >>}
\* The name of a PROTO, or of an EXTERNPROTO, within its file.
Path(s) == IF s.kind = "extern" THEN <<s.name>> ELSE Append(s.within, s.name)

\* A name is declared once in its scope, as the parser asserts (parse_vrml.h:331, 608).
ASSUME FilesAssumption ==
  \A w \in Webs : \A f \in DOMAIN w.files :
    LET file == w.files[f]
    IN  /\ file \in Seq(Range(file)) /\ file # << >>
        /\ \A s \in Range(file) :
             /\ s.kind \in {"extern", "node", "proto"}
             /\ s.kind = "extern" => IsUrl(s.url) /\ IsUrl(s.wants) /\ s.fits \in BOOLEAN
             /\ s.kind = "proto" => s.within \in Seq(Range(s.within))
        /\ \A i, j \in DOMAIN file :
             "node" \notin {file[i].kind, file[j].kind} /\ Path(file[i]) = Path(file[j]) => i = j

ASSUME ExternprotoAssumption ==
  /\ MaxMetatypes \in Nat /\ Openers \cap Nat = {}
  /\ \A w \in Webs : /\ DOMAIN w.opened \subseteq Openers
                     /\ w.most \in 0 .. MaxMetatypes /\ w.fragments \in BOOLEAN
                     /\ Range(w.opened) \subseteq DOMAIN w.files
                     /\ \A t \in DOMAIN w.opened : w.files[w.opened[t]][1].kind = "extern"

VARIABLES
  web,        \* the files
  thread,     \* the threads: where they are, and their local variables
  registry,   \* the browser's metatypes: an EXTERNPROTO's or a PROTO's for each URL
  metatypes,  \* the metatypes of EXTERNPROTOs, in the order in which they are made
  etypes,     \* the types that EXTERNPROTOs have made
  bodies,     \* the type of the node in the body of each PROTO
  broke,      \* what stopped the program, if anything
  left,       \* history: the metatypes of nodes that nothing will replace
  overwritten \* history: the URLs at which an EXTERNPROTO replaced a PROTO

epVars == <<web, thread, registry, metatypes, etypes, bodies, broke, left, overwritten>>

-----------------------------------------------------------------------------
(* Helpers. *)

\* A metatype, or a type or PROTO: the thread that made it, and its name in the thread's file.
Thing(kind, t, name) == [kind |-> kind, by |-> t, name |-> name]
Nothing == Thing("nothing", 0, << >>)  \* no PROTO; a type of the profile
Metatype(m) == Thing("metatype", m, << >>)
NoOne == 0
Put(f, x, y) == [z \in DOMAIN f \cup {x} |-> IF z = x THEN y ELSE f[z]]

FileOf(url) == url[1]
\* The URL of the stream that t parses, the id of its scope.
Url(t) == IF t \in Openers THEN <<web.opened[t]>>
          ELSE IF web.fragments THEN metatypes[t].wants ELSE <<FileOf(metatypes[t].wants)>>
StatementsOf(t) == web.files[FileOf(Url(t))]
StatementAt(t) == StatementsOf(t)[thread[t].at]
At(t, place) == broke = "nothing" /\ thread[t].pc = place

Registered(x) == x \in Range(registry)
IsProto(url) == url \in DOMAIN registry /\ registry[url].kind = "proto"

InParse == {"extern", "id", "url", "type", "node", "proto", "finish", "check", "first"}
InSet == {"set", "types", "replace"}

(* What the shared_ptrs keep: the registry and the function that has it at *)
(* hand keep a PROTO, nodes their scope, a scope its types, and types      *)
(* their metatype.                                                         *)
Holds(t, x, places) == thread[t].subject = x /\ thread[t].pc \in places
ProtoLives(p) == Registered(p) \/ \E t \in Threads : Holds(t, p, InSet \cup {"check", "first"})
HasRoots(t) == \E i \in 1 .. thread[t].at - 1 : StatementsOf(t)[i].kind = "node"
RootsStay(t) == thread[t].pc \in InSet \cup {"find"} \cup (IF t \in Openers THEN {"end"} ELSE {})
ScopeLives(t) ==
  \/ thread[t].pc \in InParse
  \/ (RootsStay(t) /\ HasRoots(t))
  \/ \E e \in DOMAIN etypes : t \in Range(etypes[e].nodes)
  \/ \E p \in DOMAIN bodies : p.by = t /\ ProtoLives(p)
MetatypeLives(m) ==
  \/ Registered(Metatype(m))
  \/ \E t \in Threads : Holds(t, Metatype(m), {"id", "url", "type"})
  \/ \E e \in DOMAIN etypes : etypes[e].of = m /\ ScopeLives(e.by)

(* Thread t goes on with statement i of the file f, or has read them all;  *)
(* known has the types in the file's scope by their names.                 *)
TypeIn(known, name) == IF name \in DOMAIN known THEN known[name] ELSE Nothing
GoOn(t, f, i, known) ==
  LET s == f[i]
      place == IF i > Len(f) THEN IF t \in Openers THEN "end" ELSE "find" ELSE s.kind
      bare == place = "proto" /\ TypeIn(known, s.body) = Nothing
  IN [thread[t] EXCEPT !.pc = IF bare THEN "finish" ELSE place, !.at = i, !.known = known,
                       !.subject = Nothing, !.scope = t,
                       !.type = CASE place = "node" -> TypeIn(known, s.name)
                                  [] place = "proto" -> TypeIn(known, s.body)
                                  [] OTHER -> Nothing]
Follow(t, known) == thread' = [thread EXCEPT ![t] = GoOn(t, StatementsOf(t), @.at + 1, known)]
Go(t, place) == thread' = [thread EXCEPT ![t].pc = place]
GoWith(t, place, x) == thread' = [thread EXCEPT ![t].pc = place, ![t].subject = x]
\* The statement throws, and the parse is over: the scene gets no nodes.
GiveUp(t) == Go(t, IF t \in Openers THEN "failed" ELSE "clear")
Break(what) ==
  broke' = what /\ UNCHANGED <<web, thread, registry, metatypes, etypes, bodies, left, overwritten>>

\* The metatypes' mutexes: t unlocks those that it holds, but not that of keep.
Free(m) == metatypes[m].holder = NoOne
Unlock(t, keep) ==
  [m \in DOMAIN metatypes |->
     [metatypes[m] EXCEPT !.holder = IF @ = t /\ m # keep THEN NoOne ELSE @]]

-----------------------------------------------------------------------------
(* Nodes. *)

Makes == {"node", "proto", "replace"}  \* a root node, that of a body, one for a node that waits
Making(t) == \E place \in Makes : At(t, place)
TypeAt(m) == metatypes[m].types[thread[m].next]

\* The node is made.
Made(t) ==
  /\ metatypes' = Unlock(t, IF At(t, "replace") THEN t ELSE NoOne)
  /\ CASE At(t, "node") -> Follow(t, thread[t].known)
       [] At(t, "proto") -> Go(t, "finish")
       [] At(t, "replace") ->
            LET nodes == etypes[TypeAt(t)].nodes
                i == thread[t].node + 1
            IN thread' = IF i > Len(nodes) THEN [thread EXCEPT ![t].pc = "types", ![t].next = @ + 1]
                         ELSE [thread EXCEPT ![t].node = i, ![t].type = thread[t].subject,
                                             ![t].scope = nodes[i]]

\* A root node of the profile.
MakeBuiltIn(t) ==
  /\ At(t, "node") /\ thread[t].type = Nothing
  /\ Made(t)
  /\ UNCHANGED <<web, registry, etypes, bodies, broke, left, overwritten>>

(* proto_node_type::do_create_node makes the body.  A type refers to its   *)
(* metatype, which it does not keep.                                       *)
MakeInstance(t) ==
  /\ Making(t) /\ thread[t].type.kind = "proto"
  /\ IF ~ProtoLives(thread[t].type) THEN Break("proto")
     ELSE /\ IF bodies[thread[t].type] = Nothing THEN Made(t)
             ELSE thread' = [thread EXCEPT ![t].type = bodies[@]] /\ UNCHANGED metatypes
          /\ UNCHANGED <<web, registry, etypes, bodies, broke, left, overwritten>>

(* externproto_node_type::do_create_node locks the metatype's mutex, and   *)
(* if there is a node to make instead, keeps it until that is made.  (The  *)
(* type's own mutex_ is only locked under the metatype's.)                 *)
MakeExtern(t) ==
  LET e == thread[t].type
      m == etypes[e].of
  IN /\ Making(t) /\ e.kind = "extern"
     /\ Free(m)
     /\ IF etypes[e].instead # Nothing
        THEN /\ thread' = [thread EXCEPT ![t].type = etypes[e].instead]
             /\ metatypes' = [metatypes EXCEPT ![m].holder = t]
             /\ UNCHANGED <<etypes, left>>
        ELSE /\ Made(t)
             /\ IF metatypes[m].cleared
                THEN left' = left \cup {m} /\ UNCHANGED etypes
                ELSE /\ etypes' = [etypes EXCEPT ![e].nodes = Append(@, thread[t].scope)]
                     /\ UNCHANGED left
     /\ UNCHANGED <<web, registry, bodies, broke, overwritten>>

-----------------------------------------------------------------------------
(* Parsers. *)

NewMetatype(t, s) ==
  [wants |-> s.wants, relative |-> s.url # s.wants,
   scene |-> IF t \in Openers THEN t ELSE metatypes[t].scene,
   holder |-> NoOne, proto |-> Nothing, types |-> << >>, cleared |-> FALSE]

(* on_externproto: the registry is asked for the URL, as it reads from the *)
(* file that is parsed.  If there is nothing, the thread of a new metatype *)
(* starts, and will resolve the URL against that of the scene.             *)
Find(t) ==
  LET s == StatementAt(t)
      url == s.url
      m == Len(metatypes) + 1
  IN /\ At(t, "extern")
     /\ IF url \in DOMAIN registry
        THEN /\ CASE registry[url].kind = "metatype" -> GoWith(t, "type", registry[url])
                  [] IsProto(url) /\ s.fits ->
                       Follow(t, Put(thread[t].known, s.name, registry[url]))
                  [] OTHER -> GiveUp(t)
             /\ UNCHANGED metatypes
        ELSE /\ m <= web.most
             /\ metatypes' = Append(metatypes, NewMetatype(t, s))
             /\ thread' = [thread EXCEPT ![t].pc = "id", ![t].subject = Metatype(m),
                                         ![m].pc = "fetch"]
     /\ UNCHANGED <<web, registry, etypes, bodies, broke, left, overwritten>>

Register(url, x) == registry' = Put(registry, url, x)
RegisterOver(url, x) ==
  Register(url, x) /\ overwritten' = overwritten \cup (IF IsProto(url) THEN {url} ELSE {})

\* The metatype is registered under its id ...
RegisterId(t) ==
  /\ At(t, "id")
  /\ RegisterOver(Append(Url(t), StatementAt(t).name), thread[t].subject)
  /\ Go(t, "url")
  /\ UNCHANGED <<web, metatypes, etypes, bodies, broke, left>>

\* ... and its URL.
RegisterUrl(t) ==
  /\ At(t, "url")
  /\ RegisterOver(StatementAt(t).url, thread[t].subject)
  /\ Go(t, "type")
  /\ UNCHANGED <<web, metatypes, etypes, bodies, broke, left>>

\* externproto_node_metatype::do_create_type
NewType(t) ==
  LET s == StatementAt(t)
      m == thread[t].subject.by
      p == metatypes[m].proto
      e == Thing("extern", t, <<s.name>>)
  IN /\ At(t, "type")
     /\ Free(m)
     /\ CASE ~ProtoLives(p) ->
               /\ etypes' = Put(etypes, e, [of |-> m, fits |-> s.fits, instead |-> Nothing,
                                            nodes |-> << >>])
               /\ metatypes' = [metatypes EXCEPT ![m].types = Append(@, e)]
               /\ Follow(t, Put(thread[t].known, s.name, e))
          [] ProtoLives(p) /\ s.fits ->
               Follow(t, Put(thread[t].known, s.name, p)) /\ UNCHANGED <<metatypes, etypes>>
          [] OTHER -> GiveUp(t) /\ UNCHANGED <<metatypes, etypes>>
     /\ UNCHANGED <<web, registry, bodies, broke, left, overwritten>>

\* on_proto_finish: the PROTO is registered under its id ...
FinishProto(t) ==
  LET path == Path(StatementAt(t))
      p == Thing("proto", t, path)
  IN /\ At(t, "finish")
     /\ Register(Url(t) \o path, p)
     /\ bodies' = Put(bodies, p, TypeIn(thread[t].known, StatementAt(t).body))
     /\ GoWith(t, "check", p)
     /\ UNCHANGED <<web, metatypes, etypes, broke, left, overwritten>>

\* ... and under the URL of the file, if no PROTO is registered there.
KnowProto(t) == Follow(t, Put(thread[t].known, StatementAt(t).name, thread[t].subject))

\* Mutation: whatever is registered there stays.
CheckAny(t) ==
  /\ At(t, "check")
  /\ IF Url(t) \in DOMAIN registry THEN KnowProto(t) ELSE Go(t, "first")
  /\ UNCHANGED <<web, registry, metatypes, etypes, bodies, broke, left, overwritten>>

\* Mutation: a later PROTO replaces the first.
CheckNone(t) ==
  /\ At(t, "check")
  /\ Go(t, "first")
  /\ UNCHANGED <<web, registry, metatypes, etypes, bodies, broke, left, overwritten>>

CheckFirst(t) ==
  /\ At(t, "check")
  /\ IF IsProto(Url(t)) THEN KnowProto(t) ELSE Go(t, "first")
  /\ UNCHANGED <<web, registry, metatypes, etypes, bodies, broke, left, overwritten>>

RegisterFirst(t) ==
  /\ At(t, "first")
  /\ Register(Url(t), thread[t].subject)
  /\ KnowProto(t)
  /\ UNCHANGED <<web, metatypes, etypes, bodies, broke, left, overwritten>>

-----------------------------------------------------------------------------
(* load_proto. *)

\* scene::url is locked while the scene is parsed.  A file that cannot be read is as good as none.
Fetch(m) ==
  LET f == FileOf(metatypes[m].wants)
  IN /\ At(m, "fetch")
     /\ metatypes[m].relative => thread[metatypes[m].scene].pc \in {"end", "failed"}
     /\ IF f \in DOMAIN web.files
        THEN thread' = [thread EXCEPT ![m] = GoOn(m, web.files[f], 1, << >>)]
        ELSE Go(m, "clear")
     /\ UNCHANGED <<web, registry, metatypes, etypes, bodies, broke, left, overwritten>>

\* When the file is read, the registry must have a PROTO for the URL.
FindProto(m) ==
  LET url == metatypes[m].wants
  IN /\ At(m, "find")
     /\ IF IsProto(url) THEN GoWith(m, "set", registry[url]) ELSE Go(m, "clear")
     /\ UNCHANGED <<web, registry, metatypes, etypes, bodies, broke, left, overwritten>>

\* set_proto_node_metatype: under the metatype's lock ...
SetProto(m) ==
  /\ At(m, "set")
  /\ IF ~MetatypeLives(m) THEN Break("metatype")
     ELSE /\ Free(m)
          /\ metatypes' = [metatypes EXCEPT ![m].holder = m, ![m].proto = thread[m].subject]
          /\ thread' = [thread EXCEPT ![m].pc = "types", ![m].next = 1]
          /\ UNCHANGED <<web, registry, etypes, bodies, broke, left, overwritten>>

(* ... each of its types gets one of the PROTO, unless the interfaces do   *)
(* not fit, which ends it all; and with it, each of the type's nodes the   *)
(* node that is there instead.                                             *)
SetType(m) ==
  LET e == TypeAt(m)
  IN /\ At(m, "types") /\ thread[m].next <= Len(metatypes[m].types)
     /\ CASE ~ScopeLives(e.by) -> Break("expired")
          [] ScopeLives(e.by) /\ ~etypes[e].fits ->
               /\ Go(m, "clear")
               /\ metatypes' = Unlock(m, NoOne)
               /\ UNCHANGED <<web, registry, etypes, bodies, broke, left, overwritten>>
          [] OTHER ->
               /\ etypes' = [etypes EXCEPT ![e].instead = thread[m].subject]
               /\ thread' = IF etypes[e].nodes = << >> THEN [thread EXCEPT ![m].next = @ + 1]
                            ELSE [thread EXCEPT ![m].pc = "replace", ![m].node = 1,
                                                ![m].type = thread[m].subject,
                                                ![m].scope = etypes[e].nodes[1]]
               /\ UNCHANGED <<web, registry, metatypes, bodies, broke, left, overwritten>>

\* Mutation: the types are cleared before the lock is released.
SetEndsLocked(m) ==
  /\ At(m, "types") /\ thread[m].next > Len(metatypes[m].types)
  /\ Go(m, "clear")
  /\ UNCHANGED <<web, registry, metatypes, etypes, bodies, broke, left, overwritten>>

SetEnds(m) ==
  /\ At(m, "types") /\ thread[m].next > Len(metatypes[m].types)
  /\ Go(m, "clear")
  /\ metatypes' = Unlock(m, NoOne)
  /\ UNCHANGED <<web, registry, etypes, bodies, broke, left, overwritten>>

\* clear_externproto_node_types, however the load went.
Clear(m) ==
  LET types == Range(metatypes[m].types)
      waits(e) == etypes[e].instead = Nothing /\ etypes[e].nodes # << >>
  IN /\ At(m, "clear")
     /\ CASE ~MetatypeLives(m) -> Break("metatype")
          [] MetatypeLives(m) /\ (\E e \in types : ~ScopeLives(e.by)) ->
               Free(m) /\ Break("expired")
          [] OTHER ->
               /\ Free(m)
               /\ metatypes' = [metatypes EXCEPT ![m].types = << >>, ![m].cleared = TRUE]
               /\ etypes' = [e \in DOMAIN etypes |->
                               [etypes[e] EXCEPT !.nodes = IF e \in types THEN << >> ELSE @]]
               /\ left' = left \cup (IF \E e \in types : waits(e) THEN {m} ELSE {})
               /\ GoWith(m, "end", Nothing)
               /\ UNCHANGED <<web, registry, bodies, broke, overwritten>>

-----------------------------------------------------------------------------

Started(t) ==
  LET idle == [pc |-> "idle", at |-> 1, known |-> << >>, subject |-> Nothing, type |-> Nothing,
               scope |-> t, next |-> 0, node |-> 0]
      first == web.files[web.opened[t]][1]
  IN IF t \in DOMAIN web.opened THEN [idle EXCEPT !.pc = first.kind] ELSE idle

ExternprotoInit ==
  /\ web \in Webs
  /\ thread = [t \in Threads |-> Started(t)]
  /\ registry = << >> /\ metatypes = << >> /\ etypes = << >> /\ bodies = << >>
  /\ broke = "nothing" /\ left = {} /\ overwritten = {}

ParserStep(t) ==
  \/ MakeBuiltIn(t) \/ MakeInstance(t) \/ MakeExtern(t)
  \/ Find(t) \/ RegisterId(t) \/ RegisterUrl(t) \/ NewType(t)
  \/ FinishProto(t) \/ CheckFirst(t) \/ RegisterFirst(t)
LoaderStep(m) ==
  Fetch(m) \/ FindProto(m) \/ SetProto(m) \/ SetType(m) \/ SetEnds(m) \/ Clear(m)

ExternprotoNext == (\E t \in Threads : ParserStep(t)) \/ (\E m \in Loaders : LoaderStep(m))

ExternprotoSpec == ExternprotoInit /\ [][ExternprotoNext]_epVars

-----------------------------------------------------------------------------
(* Properties. *)

Places == {"idle", "fetch", "clear", "end", "failed", "find"} \cup InParse \cup InSet

\* Every variable has its type, and a metatype's mutex is held only by a thread that makes or
\* replaces a node.
ExternprotoTypeOK ==
  /\ web \in Webs
  /\ \A t \in Threads : thread[t].pc \in Places /\ thread[t].scope \in Threads
  /\ \A u \in DOMAIN registry : registry[u].kind \in {"metatype", "proto"}
  /\ Len(metatypes) <= web.most
  /\ \A m \in DOMAIN metatypes :
       metatypes[m].holder # NoOne =>
         thread[metatypes[m].holder].pc \in {"node", "proto", "types", "replace"}
  /\ \A e \in DOMAIN etypes : etypes[e].of \in DOMAIN metatypes
  /\ broke \in {"nothing", "proto", "metatype", "expired"}
  /\ left \subseteq DOMAIN metatypes

\* The threads that read f.
Opened(f) == {t \in Threads : thread[t].pc \notin {"idle", "fetch"} /\ FileOf(Url(t)) = f}
Those(f, kind) == {s \in Range(web.files[f]) : s.kind = kind}
Declarations == UNION {Those(f, "extern") : f \in DOMAIN web.files}
Misfit == \E s \in Declarations : ~s.fits

\* Files whose EXTERNPROTOs lead from each to another of them.
Circular ==
  \E C \in SUBSET DOMAIN web.files \ {{}} :
    \A f \in C : \E s \in Those(f, "extern") : FileOf(s.wants) \in C

\* A file that has EXTERNPROTOs, but nothing that keeps its scope once it is read.
Drops(f) ==
  /\ Those(f, "extern") # {} /\ Those(f, "proto") = {}
  /\ f \in Range(web.opened) => Those(f, "node") = {}

\* The id of an EXTERNPROTO.
IsId(url) ==
  /\ FileOf(url) \in DOMAIN web.files
  /\ \E s \in Those(FileOf(url), "extern") : Tail(url) = Path(s)

\* What was in the registry is there no more, or was replaced by its like.
Replaced ==
  \/ overwritten # {} \/ \E f \in DOMAIN web.files : Cardinality(Opened(f)) > 1
  \/ \E s \in Declarations : IsId(s.url)

(* When no thread can go on, all have ended: the load of every EXTERNPROTO *)
(* ends, whose thread externproto.cpp:190 joins, as each step leads a      *)
(* thread on in its file or its lists.  Unless the files are circular:     *)
(* then two threads may wait for each other's metatype, or one for the     *)
(* mutex that it holds (externproto.cpp:310).  The program stops at a      *)
(* dangling reference only if a registration was replaced, and at the      *)
(* assertions that no type has expired (externproto.cpp:220, 236) only so, *)
(* or if a file's scope is dropped.                                        *)
LoadsEnd ==
  \/ ENABLED ExternprotoNext
  \/ \A t \in Threads : thread[t].pc \in {"idle", "end", "failed"}
  \/ Circular
  \/ broke \in {"proto", "metatype"} /\ Replaced
  \/ broke = "expired" /\ (Replaced \/ \E f \in DOMAIN web.files : Drops(f))

\* A file has a PROTO for the URL, in the eyes of load_proto.
Provides(url) ==
  /\ FileOf(url) \in DOMAIN web.files
  /\ \E s \in Those(FileOf(url), "proto") : web.fragments \/ Len(url) = 1 \/ Tail(url) = Path(s)

(* However parsers and the thread race, an EXTERNPROTO's node that is made *)
(* before its PROTO is there is replaced when it is, and one that is made  *)
(* later is an instance of the PROTO: the check of                         *)
(* externproto_node_types_cleared_ (externproto.cpp:325) leaves no node    *)
(* between the two.  The causes of an exception: there is no such PROTO,   *)
(* its registration was overwritten or its PROTO freed, or declarations    *)
(* do not fit.                                                             *)
NodesAreReplaced ==
  \A m \in left :
    \/ Misfit
    \/ IF metatypes[m].proto # Nothing THEN ~ProtoLives(metatypes[m].proto)
       ELSE ~Provides(metatypes[m].wants) \/ metatypes[m].wants \in overwritten

\* The PROTO that a URL means: the first of the file, or the one that the fragment names.
Means(url, p) ==
  LET f == web.files[FileOf(url)]
  IN /\ FileOf(Url(p.by)) = FileOf(url)
     /\ IF Len(url) > 1 THEN p.name = Tail(url)
        ELSE \A i \in DOMAIN f :
               f[i].kind = "proto" => \E j \in 1 .. i : f[j].kind = "proto" /\ Path(f[j]) = p.name

(* An EXTERNPROTO's type becomes one of the PROTO that its URL means, in   *)
(* whatever order parsers and load threads register PROTOs and metatypes   *)
(* for the same URLs.  Not so if a late EXTERNPROTO overwrote the first    *)
(* PROTO's registration: the second PROTO of the file takes its place      *)
(* (parse_vrml.h:314, 578).  Nor if a stream's url keeps the fragment, a   *)
(* file has nested PROTOs, the inmost of which is the first to be          *)
(* registered, the world is not in the directory of the file, from which   *)
(* the parser resolves the URL, or a fragment names an EXTERNPROTO, whose  *)
(* metatype is registered there.                                           *)
RightProto ==
  \/ \E s \in Declarations : s.url # s.wants \/ (web.fragments /\ Len(s.url) > 1) \/ IsId(s.url)
  \/ \E f \in DOMAIN web.files : \E s \in Those(f, "proto") : s.within # << >>
  \/ \A t \in UNION {Opened(f) : f \in DOMAIN web.files} :
       \A i \in 1 .. thread[t].at - 1 :
         LET s == StatementsOf(t)[i]
             x == thread[t].known[s.name]
             p == IF x.kind = "proto" THEN x ELSE etypes[x].instead
         IN s.kind = "extern" => p = Nothing \/ Means(s.url, p) \/ s.url \in overwritten
=============================================================================
