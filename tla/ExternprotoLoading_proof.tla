----------------------- MODULE ExternprotoLoading_proof -----------------------
(***************************************************************************)
(* However parsers and load threads interleave, an EXTERNPROTO's node is   *)
(* replaced (NodesAreReplaced) by one of the PROTO that its URL means      *)
(* (RightProto), and every variable has its type.                          *)
(*                                                                         *)
(* The inductive invariant LoadInv says of each thread that what it has at *)
(* hand fits the place where it is (PlaceInv) and that what it has         *)
(* registered stays (ReadInv), of each type and each PROTO that a          *)
(* statement which was read made it (EtypeInv, BodyInv), and of each       *)
(* metatype how far its types are set (SetInv) and how its load went       *)
(* (OutcomeInv).  A step moves one thread: Grows says what it leaves as it *)
(* is, which is all that the invariants of the other threads need.         *)
(* RightInv, on top of it, says that the PROTO of a URL is the right one   *)
(* wherever it goes: in the registry, at a thread's hand, in a file's      *)
(* scope, in a metatype and in its types.                                  *)
(***************************************************************************)
EXTENDS ExternprotoLoading, SequenceLemmas

(* The types of the variables.  Things have the names that the files give. *)
Statements == UNION {UNION {Range(w.files[f]) : f \in DOMAIN w.files} : w \in Webs}
Names == {s.name : s \in Statements}
Paths == {Path(s) : s \in {r \in Statements : r.kind = "proto"}}
Things == [kind : {"nothing", "metatype", "extern", "proto"}, by : Threads \cup {NoOne},
           name : {<<>>} \cup {<<n>> : n \in Names} \cup Paths]
Known == UNION {[N -> Things] : N \in SUBSET Names}
ThreadRec ==
  [pc : Places, at : Nat \ {0}, known : Known, subject : Things, type : Things,
   scope : Threads, next : Nat, node : Nat]
MetatypeRec ==
  [wants : {s.wants : s \in {r \in Statements : r.kind = "extern"}}, relative : BOOLEAN,
   scene : Openers, holder : Threads \cup {NoOne}, proto : Things, types : Seq(Things),
   cleared : BOOLEAN]
EtypeRec == [of : Loaders, fits : BOOLEAN, instead : Things, nodes : Seq(Threads)]

TypesInv ==
  /\ web \in Webs
  /\ thread \in [Threads -> ThreadRec]
  /\ metatypes \in Seq(MetatypeRec) /\ Len(metatypes) <= web.most
  /\ DOMAIN etypes \subseteq Things /\ \A e \in DOMAIN etypes : etypes[e] \in EtypeRec
  /\ DOMAIN bodies \subseteq Things
  /\ \A u \in DOMAIN registry :
       registry[u] \in DOMAIN bodies \/ \E m \in DOMAIN metatypes : registry[u] = Metatype(m)
  /\ left \subseteq DOMAIN metatypes
  /\ broke \in {"nothing", "proto", "metatype", "expired"}

-----------------------------------------------------------------------------
(* What a thread has at hand. *)

\* The type of a node that can be made.
ValidType(x) == x = Nothing \/ x \in DOMAIN bodies \/ x \in DOMAIN etypes

\* A thread is at a statement of its file, and has what it needs there.
PlacesOf(kind) ==
  CASE kind = "extern" -> {"extern", "id", "url", "type"}
    [] kind = "node"   -> {"node"}
    [] kind = "proto"  -> {"proto", "finish", "check", "first"}
Reading == InParse \cup InSet \cup {"find"}

PlaceInv(t) ==
  LET r == thread[t]
  IN /\ t \in Openers => r.pc \notin {"fetch", "find", "clear"} \cup InSet
     /\ t \in Loaders => (r.pc = "idle" <=> t \notin DOMAIN metatypes)
     /\ t \in Openers => (r.pc = "idle" <=> t \notin DOMAIN web.opened)
     /\ r.pc \in {"idle", "fetch"} => r.at = 1
     /\ r.pc \in Reading => FileOf(Url(t)) \in DOMAIN web.files
     /\ r.pc \in InParse => /\ r.at \in DOMAIN StatementsOf(t)
                            /\ r.pc \in PlacesOf(StatementAt(t).kind)
     /\ r.pc = "find" => r.at > Len(StatementsOf(t))
     /\ r.pc \in {"id", "url", "type"} => \E m \in DOMAIN metatypes : r.subject = Metatype(m)
     /\ r.pc \in {"check", "first"} => /\ r.subject = Thing("proto", t, Path(StatementAt(t)))
                                       /\ r.subject \in DOMAIN bodies
     /\ r.pc \in InSet => r.subject \in DOMAIN bodies
     /\ ValidType(r.type)
     /\ \A n \in DOMAIN r.known : ValidType(r.known[n])

\* What a thread has registered stays, unless an EXTERNPROTO overwrites it.
Kept(url) == IsProto(url) \/ url \in overwritten
Finished(t, i) ==
  i < thread[t].at \/ (i = thread[t].at /\ thread[t].pc \in {"check", "first"})
ReadInv(t) ==
  thread[t].pc \in InParse \cup {"find"} =>
    \A i \in DOMAIN StatementsOf(t) :
      StatementsOf(t)[i].kind = "proto" =>
        /\ Finished(t, i) => Kept(Url(t) \o Path(StatementsOf(t)[i]))
        /\ i < thread[t].at => Kept(Url(t))

-----------------------------------------------------------------------------
(* What was made. *)

Opens(t) == FileOf(Url(t)) \in DOMAIN web.files /\ thread[t].pc \notin {"idle", "fetch"}
EtypeInv(e) ==
  /\ e.by \in Threads /\ Opens(e.by)
  /\ \E i \in DOMAIN StatementsOf(e.by) :
       /\ i < thread[e.by].at /\ StatementsOf(e.by)[i].kind = "extern"
       /\ e = Thing("extern", e.by, <<StatementsOf(e.by)[i].name>>)
  /\ etypes[e].of \in DOMAIN metatypes
  /\ metatypes[etypes[e].of].cleared \/ e \in Range(metatypes[etypes[e].of].types)
  /\ etypes[e].fits \/ Misfit
  /\ etypes[e].instead = Nothing \/ etypes[e].instead \in DOMAIN bodies
BodyInv(p) ==
  /\ p.by \in Threads /\ Opens(p.by)
  /\ \E i \in DOMAIN StatementsOf(p.by) :
       /\ Finished(p.by, i) /\ StatementsOf(p.by)[i].kind = "proto"
       /\ p = Thing("proto", p.by, Path(StatementsOf(p.by)[i]))
  /\ ValidType(bodies[p])

-----------------------------------------------------------------------------
(* How the load of a metatype goes. *)

Setting == {"types", "replace"}
Over == {"clear", "end"}
IsSet(e) == etypes[e].instead # Nothing
TypesOf(m) == {e \in DOMAIN etypes : etypes[e].of = m}

\* The types that are still to be given theirs.
ToBeSet(m, e) ==
  \E k \in DOMAIN metatypes[m].types :
    /\ metatypes[m].types[k] = e
    /\ thread[m].next < k \/ (thread[m].next = k /\ thread[m].pc = "types")
\* Why nodes are left of m.
Excused(m) ==
  \/ Misfit
  \/ IF metatypes[m].proto # Nothing THEN ~ProtoLives(metatypes[m].proto)
     ELSE ~Provides(metatypes[m].wants) \/ metatypes[m].wants \in overwritten
SetInv(m) ==
  /\ metatypes[m].holder # NoOne => thread[metatypes[m].holder].pc \in Makes \cup {"types"}
  /\ thread[m].pc \in Setting =>
       /\ metatypes[m].holder = m /\ metatypes[m].proto = thread[m].subject
       /\ thread[m].next # 0
       /\ \A e \in TypesOf(m) : IsSet(e) \/ ToBeSet(m, e)
  /\ thread[m].pc = "replace" => thread[m].next \in DOMAIN metatypes[m].types
OutcomeInv(m) ==
  /\ metatypes[m].proto = Nothing \/ metatypes[m].proto \in DOMAIN bodies
  /\ thread[m].pc \notin Setting \cup Over => metatypes[m].proto = Nothing
  /\ metatypes[m].cleared <=> thread[m].pc = "end"
  /\ \A k \in DOMAIN metatypes[m].types : metatypes[m].types[k] \in TypesOf(m)
  /\ thread[m].pc \in Over =>
       Excused(m) \/ (metatypes[m].proto # Nothing /\ \A e \in TypesOf(m) : IsSet(e))
  /\ m \in left => metatypes[m].cleared /\ Excused(m)

LoadInv ==
  /\ TypesInv
  /\ \A t \in Threads : PlaceInv(t) /\ ReadInv(t)
  /\ \A e \in DOMAIN etypes : EtypeInv(e)
  /\ \A p \in DOMAIN bodies : BodyInv(p)
  /\ \A m \in DOMAIN metatypes : SetInv(m) /\ OutcomeInv(m)

-----------------------------------------------------------------------------
(* Files, URLs and tables. *)

(* What FilesAssumption gives of a file of the web. *)
LEMMA FileFacts ==
  ASSUME web \in Webs, NEW f \in DOMAIN web.files
  PROVE  LET file == web.files[f]
         IN  /\ file \in Seq(Range(file)) /\ Len(file) \in Nat \ {0}
             /\ DOMAIN file = 1 .. Len(file)
             /\ \A i \in DOMAIN file : /\ file[i] \in Range(file) /\ file[i] \in Statements
                                      /\ file[i].kind \in {"extern", "node", "proto"}
<1> DEFINE file == web.files[f]
<1>1. /\ file \in Seq(Range(file)) /\ file # <<>>
      /\ \A s \in Range(file) : s.kind \in {"extern", "node", "proto"}
  BY FilesAssumption
<1>2. Len(file) \in Nat \ {0} /\ DOMAIN file = 1 .. Len(file)
  BY <1>1, LenProperties, EmptySeq
<1>3. Range(file) \subseteq Statements
  BY DEF Statements
<1>4. \A i \in DOMAIN file : file[i] \in Range(file)
  BY DEF Range
<1> QED BY <1>1, <1>2, <1>3, <1>4

(* What it gives of a statement. *)
LEMMA StatementFacts ==
  ASSUME NEW s \in Statements
  PROVE  /\ s.name \in Names
         /\ s.kind = "extern" => /\ s.url \in Seq(Range(s.url)) /\ s.url # <<>>
                                 /\ s.wants \in Seq(Range(s.wants)) /\ s.wants # <<>>
                                 /\ s.fits \in BOOLEAN
         /\ s.kind = "proto" => s.within \in Seq(Range(s.within)) /\ Path(s) \in Paths
  BY FilesAssumption DEF Statements, Names, Paths, IsUrl

(* No two declarations of a file have one name. *)
LEMMA PathsAreUnique ==
  ASSUME web \in Webs, NEW f \in DOMAIN web.files,
         NEW i \in DOMAIN web.files[f], NEW j \in DOMAIN web.files[f],
         web.files[f][i].kind # "node", web.files[f][j].kind # "node",
         Path(web.files[f][i]) = Path(web.files[f][j])
  PROVE  i = j
<1> DEFINE file == web.files[f]
<1>1. \A k, l \in DOMAIN file :
        "node" \notin {file[k].kind, file[l].kind} /\ Path(file[k]) = Path(file[l]) => k = l
  BY FilesAssumption
<1> QED BY <1>1

LEMMA NamesAreUnique ==
  ASSUME web \in Webs, NEW f \in DOMAIN web.files,
         NEW i \in DOMAIN web.files[f], NEW j \in DOMAIN web.files[f],
         web.files[f][i].kind = web.files[f][j].kind,
         \/ web.files[f][i].kind = "extern" /\ web.files[f][i].name = web.files[f][j].name
         \/ web.files[f][i].kind = "proto" /\ Path(web.files[f][i]) = Path(web.files[f][j])
  PROVE  i = j
<1>1. web.files[f][i].kind # "node" /\ Path(web.files[f][i]) = Path(web.files[f][j])
  BY DEF Path
<1> QED BY <1>1, PathsAreUnique

LEMMA PutFacts ==
  ASSUME NEW f, NEW x, NEW y
  PROVE  /\ DOMAIN Put(f, x, y) = DOMAIN f \cup {x}
         /\ Put(f, x, y)[x] = y
         /\ \A z \in DOMAIN f : z # x => Put(f, x, y)[z] = f[z]
  BY DEF Put

(* The URL of a stream and that of the EXTERNPROTO have the same file. *)
LEMMA SameFile ==
  ASSUME NEW t, t \notin Openers
  PROVE  FileOf(Url(t)) = FileOf(metatypes[t].wants)
  BY DEF FileOf, Url

LEMMA NumbersAreNotOpeners == Loaders \cap Openers = {} /\ NoOne \notin Threads
  BY ExternprotoAssumption DEF Loaders, Threads, NoOne

(* Things. *)
LEMMA ThingFacts ==
  /\ Nothing \in Things /\ Nothing.kind = "nothing"
  /\ \A m \in Loaders : Metatype(m) \in Things /\ Metatype(m).kind = "metatype" /\ Metatype(m).by = m
  /\ \A t \in Threads, n \in Names :
       /\ Thing("extern", t, <<n>>) \in Things /\ Thing("extern", t, <<n>>).kind = "extern"
       /\ Thing("extern", t, <<n>>).by = t
  /\ \A t \in Threads, n \in Paths :
       /\ Thing("proto", t, n) \in Things /\ Thing("proto", t, n).kind = "proto"
       /\ Thing("proto", t, n).by = t
  BY DEF Things, Thing, Nothing, Metatype, Threads, NoOne

(* What a scope knows. *)
LEMMA KnownFacts ==
  /\ <<>> \in Known
  /\ \A known \in Known : \A n \in Names, x \in Things :
       /\ Put(known, n, x) \in Known
       /\ \A z \in DOMAIN Put(known, n, x) :
            Put(known, n, x)[z] = x \/ (z \in DOMAIN known /\ Put(known, n, x)[z] = known[z])
  /\ \A known \in Known : \A n :
       /\ TypeIn(known, n) \in Things
       /\ TypeIn(known, n) = Nothing \/ (n \in DOMAIN known /\ TypeIn(known, n) = known[n])
<1>1. <<>> \in Known
  <2>1. <<>> = [n \in {} |-> Nothing]
    BY EmptySeq
  <2>2. [n \in {} |-> Nothing] \in [{} -> Things] /\ {} \in SUBSET Names
    OBVIOUS
  <2> QED BY <2>1, <2>2 DEF Known
<1>2. ASSUME NEW known \in Known, NEW n \in Names, NEW x \in Things
      PROVE  /\ Put(known, n, x) \in Known
             /\ \A z \in DOMAIN Put(known, n, x) :
                  Put(known, n, x)[z] = x \/ (z \in DOMAIN known /\ Put(known, n, x)[z] = known[z])
  <2>1. PICK N \in SUBSET Names : known \in [N -> Things]
    BY DEF Known
  <2>2. Put(known, n, x) \in [N \cup {n} -> Things]
    BY <2>1 DEF Put
  <2>3. N \cup {n} \in SUBSET Names
    BY <2>1
  <2>4. Put(known, n, x) \in Known
    BY <2>2, <2>3 DEF Known
  <2> QED BY <2>4 DEF Put
<1>3. ASSUME NEW known \in Known, NEW n
      PROVE  /\ TypeIn(known, n) \in Things
             /\ TypeIn(known, n) = Nothing \/ (n \in DOMAIN known /\ TypeIn(known, n) = known[n])
  <2>1. PICK N \in SUBSET Names : known \in [N -> Things]
    BY DEF Known
  <2> QED BY <2>1, ThingFacts DEF TypeIn
<1> QED BY <1>1, <1>2, <1>3

(* A thread that goes on: r is what GoOn makes of it. *)
WentOn(r, t, f, i, known) ==
  /\ r \in ThreadRec /\ r.at = i /\ r.known = known /\ r.subject = Nothing
  /\ i > Len(f) => r.pc = IF t \in Openers THEN "end" ELSE "find"
  /\ i <= Len(f) => /\ r.pc \in {"extern", "node", "proto", "finish"}
                    /\ r.pc \in PlacesOf(f[i].kind)
  /\ r.type = Nothing \/ \E n \in DOMAIN known : r.type = known[n]

LEMMA GoOnFacts ==
  ASSUME NEW t \in Threads, thread[t] \in ThreadRec, NEW f, Len(f) \in Nat, NEW i \in Nat \ {0},
         i <= Len(f) => f[i].kind \in {"extern", "node", "proto"}, NEW known \in Known
  PROVE  WentOn(GoOn(t, f, i, known), t, f, i, known)
<1> DEFINE s == f[i]
           place == IF i > Len(f) THEN IF t \in Openers THEN "end" ELSE "find" ELSE s.kind
           bare == place = "proto" /\ TypeIn(known, s.body) = Nothing
           type == CASE place = "node" -> TypeIn(known, s.name)
                     [] place = "proto" -> TypeIn(known, s.body)
                     [] OTHER -> Nothing
           pc == IF bare THEN "finish" ELSE place
<1>1. GoOn(t, f, i, known) = [thread[t] EXCEPT !.pc = pc, !.at = i, !.known = known,
                                !.subject = Nothing, !.scope = t, !.type = type]
  BY DEF GoOn
<1>2. type \in Things /\ (type = Nothing \/ \E n \in DOMAIN known : type = known[n])
  <2> HIDE DEF place
  <2> QED BY KnownFacts, ThingFacts
<1>3. /\ pc \in {"end", "find", "extern", "node", "proto", "finish"}
      /\ i > Len(f) => pc = IF t \in Openers THEN "end" ELSE "find"
      /\ i <= Len(f) => /\ pc \in {"extern", "node", "proto", "finish"}
                        /\ pc \in PlacesOf(f[i].kind)
  <2>1. CASE i > Len(f)
    BY <2>1
  <2>2. CASE ~(i > Len(f))
    <3>1. place = f[i].kind /\ place \in {"extern", "node", "proto"}
      BY <2>2
    <3>2. pc \in {place, "finish"} /\ (pc = "finish" => place = "proto")
      OBVIOUS
    <3> HIDE DEF pc, place
    <3> QED BY <3>1, <3>2, <2>2 DEF PlacesOf
  <2> QED BY <2>1, <2>2
<1> HIDE DEF pc, type
<1>4. pc \in Places
  BY <1>3 DEF Places, InParse
<1>5. GoOn(t, f, i, known) \in ThreadRec
  <2>1. ASSUME NEW r \in ThreadRec, NEW c \in Places, NEW x \in Things, NEW y \in Things
        PROVE  [r EXCEPT !.pc = c, !.at = i, !.known = known, !.subject = x, !.scope = t,
                         !.type = y] \in ThreadRec
    BY DEF ThreadRec
  <2>2. type \in Things /\ Nothing \in Things
    BY <1>2, ThingFacts
  <2>3. [thread[t] EXCEPT !.pc = pc, !.at = i, !.known = known, !.subject = Nothing, !.scope = t,
                          !.type = type] \in ThreadRec
    BY <1>4, <2>1, <2>2
  <2> QED BY <1>1, <2>3
<1>6. /\ GoOn(t, f, i, known).at = i /\ GoOn(t, f, i, known).known = known
      /\ GoOn(t, f, i, known).subject = Nothing /\ GoOn(t, f, i, known).pc = pc
      /\ GoOn(t, f, i, known).type = type
  BY <1>1 DEF ThreadRec
<1> QED BY <1>2, <1>3, <1>5, <1>6 DEF WentOn

-----------------------------------------------------------------------------
(* What every step leaves as it is. *)
Grows ==
  /\ web' = web
  /\ DOMAIN metatypes \subseteq DOMAIN metatypes'
  /\ \A m \in DOMAIN metatypes : metatypes'[m].wants = metatypes[m].wants
  /\ DOMAIN etypes \subseteq DOMAIN etypes' /\ DOMAIN bodies \subseteq DOMAIN bodies'
  /\ \A url : Kept(url) => Kept(url)'

\* And what is overwritten, and the metatype of a type.
Stays ==
  /\ Grows /\ overwritten \subseteq overwritten'
  /\ \A e \in DOMAIN etypes : etypes'[e].of = etypes[e].of

\* The file that a thread reads.
LEMMA UrlsStay ==
  ASSUME Grows, NEW t \in Threads, t \in Openers \/ t \in DOMAIN metatypes
  PROVE  Url(t)' = Url(t) /\ StatementsOf(t)' = StatementsOf(t)
<1>1. Url(t)' = Url(t)
  BY DEF Grows, Url
<1> QED BY <1>1 DEF Grows, StatementsOf, FileOf

\* The threads that the step does not move.
LEMMA OtherThread ==
  ASSUME Grows, NEW t \in Threads, thread'[t] = thread[t], PlaceInv(t), ReadInv(t),
         t \in Loaders /\ t \in DOMAIN metatypes' => t \in DOMAIN metatypes
  PROVE  PlaceInv(t)' /\ ReadInv(t)'
<1>1. CASE t \in Loaders /\ t \notin DOMAIN metatypes
  <2>1. thread[t].pc = "idle" /\ thread'[t].pc = "idle" /\ t \notin Openers
    BY <1>1, NumbersAreNotOpeners DEF PlaceInv
  <2>2. ValidType(thread[t].type)' /\ \A n \in DOMAIN thread[t].known : ValidType(thread[t].known[n])'
    BY DEF PlaceInv, ValidType, Grows
  <2>3. "idle" \notin InParse \cup InSet \cup Reading \cup {"find", "check", "first", "id", "url", "type"}
    BY DEF InParse, InSet, Reading
  <2>4. PlaceInv(t)'
    BY <2>1, <2>2, <2>3, <1>1 DEF PlaceInv
  <2> QED BY <2>1, <2>3, <2>4 DEF ReadInv
<1>2. CASE t \in Openers \/ t \in DOMAIN metatypes
  <2>1. Url(t)' = Url(t) /\ StatementsOf(t)' = StatementsOf(t) /\ StatementAt(t)' = StatementAt(t)
    BY <1>2, UrlsStay DEF StatementAt
  <2>2. PlaceInv(t)'
    <3>1. \A x : ValidType(x) => ValidType(x)'
      BY DEF ValidType, Grows
    <3>2. (\E m \in DOMAIN metatypes : thread[t].subject = Metatype(m))
             => (\E m \in DOMAIN metatypes : thread[t].subject = Metatype(m))'
      BY DEF Grows, Metatype
    <3>3. /\ web' = web /\ DOMAIN bodies \subseteq DOMAIN bodies' /\ thread'[t] = thread[t]
          /\ t \in Loaders => (t \in DOMAIN metatypes' <=> t \in DOMAIN metatypes)
      BY DEF Grows
    <3> QED BY <2>1, <3>1, <3>2, <3>3 DEF PlaceInv
  <2>3. ReadInv(t)'
    <3>1. \A i : Finished(t, i)' <=> Finished(t, i)
      BY DEF Finished
    <3> QED BY <2>1, <3>1 DEF ReadInv, Grows
  <2> QED BY <2>2, <2>3
<1> QED BY <1>1, <1>2 DEF Threads

\* A thread has come to statement i, or to the end, of its file.
ComesTo(t, i, known) ==
  /\ thread'[t] = GoOn(t, StatementsOf(t), i, known)
  /\ FileOf(Url(t)) \in DOMAIN web.files
  /\ t \in Openers => t \in DOMAIN web.opened
  /\ t \in Loaders => t \in DOMAIN metatypes
  /\ \A x : (\E n \in DOMAIN known : x = known[n]) => ValidType(x)'
  /\ \A j \in DOMAIN StatementsOf(t) :
       j < i /\ StatementsOf(t)[j].kind = "proto" =>
         Kept(Url(t) \o Path(StatementsOf(t)[j]))' /\ Kept(Url(t))'

LEMMA ThreadComes ==
  ASSUME TypesInv, Grows, NEW t \in Threads, NEW i \in Nat \ {0}, NEW known \in Known,
         ComesTo(t, i, known)
  PROVE  /\ PlaceInv(t)' /\ ReadInv(t)' /\ thread'[t] \in ThreadRec
         /\ thread'[t].at = i /\ thread'[t].subject = Nothing
         /\ thread'[t].pc \in {"end", "find", "extern", "node", "proto", "finish"}
         /\ thread'[t].pc = "end" => t \notin Loaders
<1> DEFINE file == StatementsOf(t)
           r == GoOn(t, file, i, known)
<1>1. Url(t)' = Url(t) /\ StatementsOf(t)' = StatementsOf(t)
  BY UrlsStay DEF ComesTo, Threads
<1>2. /\ Len(file) \in Nat \ {0} /\ DOMAIN file = 1 .. Len(file)
      /\ \A j \in DOMAIN file : file[j].kind \in {"extern", "node", "proto"}
  BY FileFacts DEF ComesTo, StatementsOf, TypesInv
<1>3. thread[t] \in ThreadRec
  BY DEF TypesInv
<1> HIDE DEF file
<1>4. i <= Len(file) => i \in DOMAIN file
  BY <1>2
<1>5. WentOn(r, t, file, i, known)
  BY <1>2, <1>3, <1>4, GoOnFacts
<1> HIDE DEF r
<1>6. thread'[t] = r /\ r.pc \in {"end", "find", "extern", "node", "proto", "finish"}
  <2>1. thread'[t] = r
    BY DEF ComesTo, file, r
  <2> QED BY <2>1, <1>2, <1>5 DEF WentOn
<1>7. r.pc = "end" => t \in Openers /\ t \notin Loaders
  BY <1>2, <1>5, <1>6, NumbersAreNotOpeners DEF WentOn
<1>8. r.pc = "find" => i > Len(file) /\ t \notin Openers
  BY <1>2, <1>5 DEF WentOn
<1>9. PlaceInv(t)'
  <2>1. \A x : x = r.type \/ (\E n \in DOMAIN r.known : x = r.known[n]) => ValidType(x)'
    <3>1. ValidType(Nothing)'
      BY DEF ValidType
    <3> QED BY <1>5, <3>1 DEF ComesTo, WentOn
  <2>2. r.pc \in InParse => i \in DOMAIN file /\ r.pc \in PlacesOf(file[i].kind)
    BY <1>2, <1>4, <1>5 DEF InParse, WentOn
  <2>3. /\ t \in Openers => t \in DOMAIN web'.opened
        /\ t \in Loaders => t \in DOMAIN metatypes'
        /\ FileOf(Url(t)') \in DOMAIN web'.files
    BY <1>1 DEF ComesTo, Grows
  <2>4. StatementAt(t)' = file[i]
    BY <1>1, <1>5, <1>6 DEF StatementAt, file, WentOn
  <2>5. r.pc \notin {"idle", "fetch", "clear", "failed", "id", "url", "type", "check", "first"}
                      \cup InSet
    BY <1>6 DEF InSet
  <2>6. StatementsOf(t)' = file
    BY <1>1 DEF file
  <2>7. ValidType(thread[t].type)' /\ \A n \in DOMAIN thread'[t].known : ValidType(thread[t].known[n])'
    BY <2>1, <1>6
  <2>8. thread'[t].at = i
    BY <1>5, <1>6 DEF WentOn
  <2> QED BY <2>2, <2>3, <2>4, <2>5, <2>6, <2>7, <2>8, <1>6, <1>8 DEF PlaceInv
<1>10. ReadInv(t)'
  <2>1. \A j : Finished(t, j)' => j < i
    BY <1>5, <1>6 DEF Finished, WentOn
  <2>2. \A j \in DOMAIN StatementsOf(t) : j < i /\ StatementsOf(t)[j].kind = "proto" =>
          Kept(Url(t) \o Path(StatementsOf(t)[j]))' /\ Kept(Url(t))'
    BY DEF ComesTo
  <2> QED BY <2>1, <2>2, <1>1, <1>5, <1>6 DEF ReadInv, WentOn
<1> QED BY <1>5, <1>6, <1>7, <1>9, <1>10 DEF WentOn

-----------------------------------------------------------------------------
(* What was made stays, and so does a load that the step does not concern. *)

\* A thread goes on in its file.
Onward(t) ==
  /\ thread[t].at <= thread'[t].at
  /\ thread[t].pc \notin {"idle", "fetch"} => thread'[t].pc \notin {"idle", "fetch"}
  /\ thread[t].pc \in {"check", "first"} =>
       thread[t].at < thread'[t].at \/ thread'[t].pc \in {"check", "first"}
AllOnward == \A t \in Threads : thread[t].at \in Nat /\ thread'[t].at \in Nat /\ Onward(t)
Others(t) == \A u \in Threads \ {t} : thread'[u] = thread[u]
BodiesStay == \A p \in DOMAIN bodies : bodies'[p] = bodies[p]
DeadStays == \A p \in DOMAIN bodies : ProtoLives(p)' => ProtoLives(p)

LEMMA OpensStays ==
  ASSUME Grows, AllOnward, NEW t \in Threads, Opens(t), PlaceInv(t)
  PROVE  Opens(t)' /\ StatementsOf(t)' = StatementsOf(t)
<1>1. t \in Openers \/ t \in DOMAIN metatypes
  BY DEF PlaceInv, Opens, Threads
<1>2. Url(t)' = Url(t) /\ StatementsOf(t)' = StatementsOf(t)
  BY <1>1, UrlsStay
<1> QED BY <1>2 DEF Opens, Grows, AllOnward, Onward

LEMMA TypeStays ==
  ASSUME TypesInv, Grows, AllOnward, NEW e \in DOMAIN etypes, EtypeInv(e), PlaceInv(e.by),
         etypes'[e].of = etypes[e].of, etypes'[e].fits = etypes[e].fits,
         etypes'[e].instead = etypes[e].instead \/ etypes'[e].instead \in DOMAIN bodies,
         \/ metatypes'[etypes[e].of].cleared
         \/ e \in Range(metatypes'[etypes[e].of].types)
  PROVE  EtypeInv(e)'
<1>1. Opens(e.by)' /\ StatementsOf(e.by)' = StatementsOf(e.by)
  BY OpensStays DEF EtypeInv
<1>2. \A i \in DOMAIN StatementsOf(e.by) : i \in Nat
  BY FileFacts DEF EtypeInv, Opens, TypesInv, StatementsOf
<1>3. \A i \in DOMAIN StatementsOf(e.by) : i < thread[e.by].at => i < thread'[e.by].at
  BY <1>2 DEF AllOnward, Onward, EtypeInv
<1>4. Misfit' = Misfit
  BY DEF Misfit, Declarations, Those, Grows
<1>5. etypes[e].of \in DOMAIN metatypes'
  BY DEF EtypeInv, Grows
<1>6. etypes'[e].instead = Nothing \/ etypes'[e].instead \in DOMAIN bodies'
  BY DEF EtypeInv, Grows
<1>7. \E i \in DOMAIN StatementsOf(e.by) :
       /\ i < thread'[e.by].at /\ StatementsOf(e.by)[i].kind = "extern"
       /\ e = Thing("extern", e.by, <<StatementsOf(e.by)[i].name>>)
  BY <1>3 DEF EtypeInv
<1>8. e.by \in Threads /\ (etypes[e].fits \/ Misfit)
  BY DEF EtypeInv
<1> QED BY <1>1, <1>4, <1>5, <1>6, <1>7, <1>8 DEF EtypeInv

LEMMA ProtoStays ==
  ASSUME TypesInv, Grows, AllOnward, BodiesStay, NEW p \in DOMAIN bodies, BodyInv(p), PlaceInv(p.by)
  PROVE  BodyInv(p)'
<1>1. Opens(p.by)' /\ StatementsOf(p.by)' = StatementsOf(p.by)
  BY OpensStays DEF BodyInv
<1>2. \A i \in DOMAIN StatementsOf(p.by) : i \in Nat
  BY FileFacts DEF BodyInv, Opens, TypesInv, StatementsOf
<1>3. \A i \in DOMAIN StatementsOf(p.by) : Finished(p.by, i) => Finished(p.by, i)'
  BY <1>2 DEF AllOnward, Onward, BodyInv, Finished
<1>4. ValidType(bodies[p])' 
  BY DEF BodyInv, ValidType, Grows, BodiesStay
<1>5. \E i \in DOMAIN StatementsOf(p.by) :
       /\ Finished(p.by, i)' /\ StatementsOf(p.by)[i].kind = "proto"
       /\ p = Thing("proto", p.by, Path(StatementsOf(p.by)[i]))
  BY <1>3 DEF BodyInv
<1> QED BY <1>1, <1>4, <1>5 DEF BodyInv

LEMMA ExcusesStay ==
  ASSUME Grows, DeadStays, NEW m \in DOMAIN metatypes, OutcomeInv(m), Excused(m),
         metatypes'[m].proto = metatypes[m].proto,
         overwritten \subseteq overwritten'
  PROVE  Excused(m)'
<1>1. Misfit' = Misfit
  BY DEF Misfit, Declarations, Those, Grows
<1>2. metatypes'[m].wants = metatypes[m].wants
  BY DEF Grows
<1>3. Provides(metatypes[m].wants)' = Provides(metatypes[m].wants)
  BY <1>2 DEF Provides, Those, Grows
<1>4. metatypes[m].proto # Nothing /\ ~ProtoLives(metatypes[m].proto) => ~ProtoLives(metatypes[m].proto)'
  <2>1. ASSUME NEW p \in DOMAIN bodies, p = metatypes[m].proto, ~ProtoLives(p)
        PROVE  ~ProtoLives(metatypes[m].proto)'
    BY <2>1 DEF DeadStays
  <2> QED BY <2>1 DEF OutcomeInv
<1> QED BY <1>1, <1>2, <1>3, <1>4 DEF Excused

\* The thread of m has not come to its types, has done with them, or comes from a node to the next.
LoadGoesOn(m) ==
  \/ thread'[m] = thread[m]
  \/ {thread[m].pc, thread'[m].pc} \cap (Setting \cup Over) = {}
  \/ /\ thread[m].pc = "replace" /\ thread'[m].subject = thread[m].subject
     /\ \/ thread'[m].pc = "replace" /\ thread'[m].next = thread[m].next
        \/ thread'[m].pc = "types" /\ thread'[m].next = thread[m].next + 1

\* A step that leaves the metatype m, but for its mutex, and its types as they are, but may set them.
LoadStays(m) ==
  /\ metatypes'[m].proto = metatypes[m].proto /\ metatypes'[m].types = metatypes[m].types
  /\ metatypes'[m].cleared = metatypes[m].cleared
  /\ TypesOf(m)' = TypesOf(m) /\ \A e \in TypesOf(m) : IsSet(e) => IsSet(e)'
  /\ metatypes'[m].holder # NoOne => thread'[metatypes'[m].holder].pc \in Makes \cup {"types"}
  /\ thread'[m].pc \in Setting => metatypes'[m].holder = m
  /\ m \in left' => m \in left \/ (metatypes[m].cleared /\ Excused(m))

LEMMA LoadKept ==
  ASSUME TypesInv, Grows, DeadStays, NEW m \in DOMAIN metatypes, SetInv(m), OutcomeInv(m),
         m \in Threads, LoadGoesOn(m), LoadStays(m), overwritten \subseteq overwritten'
  PROVE  SetInv(m)' /\ OutcomeInv(m)'
<1>1. Excused(m) => Excused(m)'
  BY ExcusesStay DEF LoadStays
<1>2. /\ metatypes[m].types \in Seq(Things) /\ thread[m].next \in Nat
      /\ Len(metatypes[m].types) \in Nat /\ DOMAIN metatypes[m].types = 1 .. Len(metatypes[m].types)
  <2>1. metatypes[m] \in MetatypeRec
    BY ElementOfSeq, LenProperties DEF TypesInv
  <2>2. metatypes[m].types \in Seq(Things)
    BY <2>1 DEF MetatypeRec
  <2>3. thread[m].next \in Nat
    BY DEF TypesInv, ThreadRec
  <2> QED BY <2>2, <2>3, LenProperties
<1>3. OutcomeInv(m)'
  <2>1. metatypes'[m].proto = Nothing \/ metatypes'[m].proto \in DOMAIN bodies'
    BY DEF OutcomeInv, LoadStays, Grows
  <2>2. /\ thread[m].pc \in Setting => thread'[m].pc \in Setting
        /\ thread'[m].pc \in Over => thread[m].pc = thread'[m].pc
        /\ thread[m].pc = "end" <=> thread'[m].pc = "end"
        /\ thread'[m].pc \notin Setting \cup Over => thread[m].pc \notin Setting \cup Over
    BY DEF LoadGoesOn, Setting, Over
  <2>3. thread'[m].pc \notin Setting \cup Over => metatypes'[m].proto = Nothing
    BY <2>2 DEF OutcomeInv, LoadStays
  <2>4. \A k \in DOMAIN metatypes'[m].types : metatypes'[m].types[k] \in TypesOf(m)'
    BY DEF OutcomeInv, LoadStays
  <2>5. thread'[m].pc \in Over =>
          \/ Excused(m)'
          \/ metatypes'[m].proto # Nothing /\ \A e \in TypesOf(m)' : IsSet(e)'
    BY <2>2, <1>1 DEF OutcomeInv, LoadStays
  <2>6. m \in left' => metatypes'[m].cleared /\ Excused(m)'
    BY <1>1 DEF OutcomeInv, LoadStays
  <2>7. metatypes'[m].cleared <=> thread'[m].pc = "end"
    BY <2>2 DEF OutcomeInv, LoadStays
  <2> QED BY <2>1, <2>3, <2>4, <2>5, <2>6, <2>7 DEF OutcomeInv
<1>4. SetInv(m)'
  <2>1. ASSUME thread'[m].pc \in Setting
        PROVE  /\ thread[m].pc \in Setting /\ thread'[m].subject = thread[m].subject
               /\ thread'[m].next # 0
               /\ \A e : ToBeSet(m, e) => ToBeSet(m, e)'
               /\ thread'[m].pc = "replace" => thread'[m].next \in DOMAIN metatypes'[m].types
    <3>1. CASE thread'[m] = thread[m]
      BY <2>1, <3>1 DEF ToBeSet, LoadStays, SetInv
    <3>2. CASE /\ thread[m].pc = "replace" /\ thread'[m].subject = thread[m].subject
               /\ \/ thread'[m].pc = "replace" /\ thread'[m].next = thread[m].next
                  \/ thread'[m].pc = "types" /\ thread'[m].next = thread[m].next + 1
      <4>1. thread[m].pc \in Setting /\ thread'[m].next # 0
        BY <3>2, <1>2 DEF Setting, SetInv
      <4>2. ASSUME NEW e, ToBeSet(m, e) PROVE ToBeSet(m, e)'
        <5>1. PICK k \in DOMAIN metatypes[m].types :
                metatypes[m].types[k] = e /\ thread[m].next < k
          BY <3>2, <4>2 DEF ToBeSet
        <5>2. \/ thread'[m].next < k
              \/ thread'[m].next = k /\ thread'[m].pc = "types"
          BY <5>1, <3>2, <1>2
        <5> QED BY <5>1, <5>2 DEF ToBeSet, LoadStays
      <4>3. thread'[m].pc = "replace" => thread'[m].next \in DOMAIN metatypes'[m].types
        BY <3>2 DEF SetInv, LoadStays
      <4> QED BY <4>1, <4>2, <4>3, <3>2
    <3> QED BY <3>1, <3>2, <2>1 DEF LoadGoesOn
  <2>2. metatypes'[m].holder # NoOne => thread'[metatypes'[m].holder].pc \in Makes \cup {"types"}
    BY DEF LoadStays
  <2>3. thread'[m].pc \in Setting =>
       /\ metatypes'[m].holder = m /\ metatypes'[m].proto = thread'[m].subject
       /\ \A e \in TypesOf(m)' : IsSet(e)' \/ ToBeSet(m, e)'
    BY <2>1 DEF LoadStays, SetInv
  <2>4. thread'[m].pc = "replace" => thread'[m].pc \in Setting
    BY DEF Setting
  <2> QED BY <2>1, <2>2, <2>3, <2>4 DEF SetInv
<1> QED BY <1>3, <1>4

-----------------------------------------------------------------------------
(* The steps of the threads, as far as they have it in common. *)

LEMMA Typed ==
  ASSUME TypesInv
  PROVE  /\ \A m \in DOMAIN metatypes : /\ metatypes[m] \in MetatypeRec /\ m \in Threads
                                       /\ m \in Loaders /\ m # NoOne
         /\ DOMAIN metatypes = 1 .. Len(metatypes) /\ Len(metatypes) \in Nat
         /\ \A t \in Threads : thread[t] \in ThreadRec
<1>1. DOMAIN metatypes = 1 .. Len(metatypes) /\ Len(metatypes) \in Nat
  BY LenProperties DEF TypesInv
<1>2. \A m \in DOMAIN metatypes : metatypes[m] \in MetatypeRec
  BY <1>1, ElementOfSeq DEF TypesInv
<1>3. Len(metatypes) <= MaxMetatypes /\ MaxMetatypes \in Nat
  BY <1>1, ExternprotoAssumption DEF TypesInv
<1>4. \A m \in DOMAIN metatypes : m \in Loaders /\ m # NoOne
  BY <1>1, <1>3 DEF Loaders, NoOne
<1>5. \A t \in Threads : thread[t] \in ThreadRec
  BY DEF TypesInv
<1> QED BY <1>1, <1>2, <1>4, <1>5 DEF Threads

\* The parts of the invariant that a step must see to itself.
TypesStep ==
  /\ \A e \in DOMAIN etypes :
       /\ etypes'[e].of = etypes[e].of /\ etypes'[e].fits = etypes[e].fits
       /\ etypes'[e].instead = etypes[e].instead \/ etypes'[e].instead \in DOMAIN bodies
       /\ \/ metatypes'[etypes[e].of].cleared
          \/ e \in Range(metatypes'[etypes[e].of].types)
  /\ \A e \in DOMAIN etypes' \ DOMAIN etypes : EtypeInv(e)'
  /\ \A p \in DOMAIN bodies' \ DOMAIN bodies : BodyInv(p)'
LoadsStep ==
  \A m \in DOMAIN metatypes' :
    \/ m \in DOMAIN metatypes /\ LoadGoesOn(m) /\ LoadStays(m)
    \/ SetInv(m)' /\ OutcomeInv(m)'

LEMMA StepKeeps ==
  ASSUME LoadInv, TypesInv', Grows, AllOnward, BodiesStay, DeadStays, overwritten \subseteq overwritten',
         \A t \in Threads : PlaceInv(t)' /\ ReadInv(t)', TypesStep, LoadsStep
  PROVE  LoadInv' /\ Stays
<1>1. ASSUME NEW e \in DOMAIN etypes' PROVE EtypeInv(e)'
  <2>1. CASE e \in DOMAIN etypes
    <3>1. EtypeInv(e) /\ PlaceInv(e.by) /\ TypesInv
      BY <2>1 DEF LoadInv, EtypeInv
    <3> QED BY <2>1, <3>1, TypeStays DEF TypesStep
  <2> QED BY <2>1 DEF TypesStep
<1>2. ASSUME NEW p \in DOMAIN bodies' PROVE BodyInv(p)'
  <2>1. CASE p \in DOMAIN bodies
    <3>1. BodyInv(p) /\ PlaceInv(p.by) /\ TypesInv
      BY <2>1 DEF LoadInv, BodyInv
    <3> QED BY <2>1, <3>1, ProtoStays
  <2> QED BY <2>1 DEF TypesStep
<1>3. ASSUME NEW m \in DOMAIN metatypes' PROVE SetInv(m)' /\ OutcomeInv(m)'
  <2>1. CASE m \in DOMAIN metatypes /\ LoadGoesOn(m) /\ LoadStays(m)
    <3>1. SetInv(m) /\ OutcomeInv(m) /\ TypesInv /\ m \in Threads
      BY <2>1, Typed DEF LoadInv
    <3> QED BY <2>1, <3>1, LoadKept
  <2> QED BY <2>1 DEF LoadsStep
<1>4. Stays
  BY DEF Stays, TypesStep
<1> QED BY <1>1, <1>2, <1>3, <1>4 DEF LoadInv

\* The step is one of thread t, and no metatype is made.
LEMMA OthersKept ==
  ASSUME LoadInv, TypesInv', Grows, NEW t \in Threads, Others(t), Onward(t),
         DOMAIN metatypes' = DOMAIN metatypes, PlaceInv(t)', ReadInv(t)'
  PROVE  AllOnward /\ \A u \in Threads : PlaceInv(u)' /\ ReadInv(u)'
<1>1. ASSUME NEW u \in Threads PROVE PlaceInv(u)' /\ ReadInv(u)'
  <2>1. CASE u # t
    <3>1. PlaceInv(u) /\ ReadInv(u) /\ thread'[u] = thread[u]
      BY <2>1 DEF LoadInv, Others
    <3> QED BY <3>1, OtherThread
  <2> QED BY <2>1
<1>2. ASSUME NEW u \in Threads PROVE thread[u].at \in Nat /\ thread'[u].at \in Nat /\ Onward(u)
  <2>1. thread[u].at \in Nat /\ thread'[u].at \in Nat
    BY DEF LoadInv, TypesInv, ThreadRec
  <2> QED BY <2>1 DEF Onward, Others
<1> QED BY <1>1, <1>2 DEF AllOnward

\* A step of thread t that changes of the metatypes no more than who holds their mutexes.
LockStep ==
  /\ metatypes' \in Seq(MetatypeRec) /\ Len(metatypes') = Len(metatypes)
  /\ \A m \in DOMAIN metatypes :
       /\ metatypes'[m].wants = metatypes[m].wants /\ metatypes'[m].proto = metatypes[m].proto
       /\ metatypes'[m].types = metatypes[m].types /\ metatypes'[m].cleared = metatypes[m].cleared
LocksOf(t) ==
  \A m \in DOMAIN metatypes :
    \/ /\ metatypes'[m].holder = NoOne /\ metatypes[m].holder = t
       /\ m = t => thread'[t].pc \notin Setting
    \/ /\ metatypes'[m].holder = metatypes[m].holder
       /\ metatypes[m].holder = t => thread'[t].pc \in Makes \cup {"types"}
    \/ /\ metatypes'[m].holder = t /\ metatypes[m].holder = NoOne
       /\ thread'[t].pc \in Makes \cup {"types"}
\* The load of t's metatype is over.
LoadEnds(t) ==
  /\ thread'[t].pc = "clear" /\ thread[t].pc # "end"
  /\ Excused(t) \/ (metatypes[t].proto # Nothing /\ \A e \in TypesOf(t) : IsSet(e))
\* What t has at hand was there before.
HasNoMore(t) ==
  thread'[t].pc \in InSet \cup {"check", "first"} =>
    \/ Registered(thread'[t].subject)
    \/ thread'[t].subject = thread[t].subject /\ thread[t].pc \in InSet \cup {"check", "first"}

LEMMA LocksKept ==
  ASSUME LoadInv, NEW t \in Threads, Others(t), LocksOf(t), NEW m \in DOMAIN metatypes
  PROVE  /\ metatypes'[m].holder # NoOne =>
              thread'[metatypes'[m].holder].pc \in Makes \cup {"types"}
         /\ thread'[m].pc \in Setting /\ (m = t => thread[t].pc \in Setting) =>
              metatypes'[m].holder = m
<1>1. /\ metatypes[m].holder \in Threads \cup {NoOne} /\ m \in Threads /\ m # NoOne
      /\ thread[m].pc \in Setting => metatypes[m].holder = m
      /\ metatypes[m].holder # NoOne => thread[metatypes[m].holder].pc \in Makes \cup {"types"}
  BY Typed DEF LoadInv, SetInv, MetatypeRec
<1>2. metatypes'[m].holder # NoOne =>
        thread'[metatypes'[m].holder].pc \in Makes \cup {"types"}
  BY <1>1 DEF LocksOf, Others
<1>3. ASSUME thread'[m].pc \in Setting, m = t => thread[t].pc \in Setting
      PROVE  metatypes'[m].holder = m
  <2>1. thread[m].pc \in Setting
    BY <1>1, <1>3 DEF Others
  <2> QED BY <1>1, <1>3, <2>1 DEF LocksOf
<1> QED BY <1>2, <1>3

\* Of the types, no more than the nodes that wait.
NodesOnly ==
  /\ DOMAIN etypes' = DOMAIN etypes
  /\ \A e \in DOMAIN etypes :
       /\ etypes'[e] \in EtypeRec /\ etypes'[e].of = etypes[e].of
       /\ etypes'[e].fits = etypes[e].fits /\ etypes'[e].instead = etypes[e].instead

\* A step of t that registers nothing, gives no metatype its PROTO and sets no type.
Quiet(t) ==
  /\ Others(t) /\ UNCHANGED registry
  /\ DOMAIN metatypes' = DOMAIN metatypes
  /\ \A m \in DOMAIN metatypes : metatypes'[m].proto = metatypes[m].proto
  /\ DOMAIN etypes' = DOMAIN etypes
  /\ \A e \in DOMAIN etypes : etypes'[e].instead = etypes[e].instead

LEMMA PlainStep ==
  ASSUME LoadInv, NEW t \in Threads, thread' \in [Threads -> ThreadRec], Others(t),
         UNCHANGED <<web, registry, bodies, broke, overwritten>>, NodesOnly, LockStep, LocksOf(t), HasNoMore(t),
         \A m \in left' : m \in left \/ (m \in DOMAIN metatypes /\ metatypes[m].cleared /\ Excused(m)),
         Onward(t), Grows => PlaceInv(t)' /\ ReadInv(t)',
         t \in DOMAIN metatypes => LoadEnds(t) \/ LoadGoesOn(t)
  PROVE  LoadInv' /\ Stays /\ Quiet(t)
<1>1. DOMAIN metatypes' = DOMAIN metatypes
  BY Typed, LenProperties DEF LockStep, LoadInv
<1>2. Grows /\ BodiesStay
  BY <1>1 DEF Grows, BodiesStay, LockStep, Kept, IsProto, NodesOnly
<1>3. TypesInv'
  <2>1. left' \subseteq DOMAIN metatypes'
    BY <1>1 DEF LoadInv, TypesInv
  <2>2. \A u \in DOMAIN registry :
          registry[u] \in DOMAIN bodies \/ \E m \in DOMAIN metatypes' : registry[u] = Metatype(m)
    BY <1>1 DEF LoadInv, TypesInv
  <2> QED BY <2>1, <2>2 DEF LoadInv, TypesInv, LockStep, Metatype, NodesOnly
<1>4. DeadStays
  <2>1. \A p : Registered(p)' <=> Registered(p)
    BY DEF Registered
  <2>2. ASSUME NEW p, NEW u \in Threads, Holds(u, p, InSet \cup {"check", "first"})'
        PROVE  ProtoLives(p)
    <3>1. CASE u = t
      BY <2>2, <3>1 DEF Holds, HasNoMore, ProtoLives
    <3>2. CASE u # t
      BY <2>2, <3>2 DEF Holds, Others, ProtoLives
    <3> QED BY <3>1, <3>2
  <2> QED BY <2>1, <2>2 DEF DeadStays, ProtoLives
<1>5. AllOnward /\ \A u \in Threads : PlaceInv(u)' /\ ReadInv(u)'
  BY <1>1, <1>2, <1>3, OthersKept
<1>6. TypesStep
  <2>1. ASSUME NEW e \in DOMAIN etypes
        PROVE  metatypes'[etypes[e].of].cleared \/ e \in Range(metatypes'[etypes[e].of].types)
    BY DEF LoadInv, EtypeInv, LockStep
  <2> QED BY <2>1 DEF TypesStep, NodesOnly
<1>7. LoadsStep
  <2>1. ASSUME NEW m \in DOMAIN metatypes, m # t \/ ~LoadEnds(t)
        PROVE  LoadGoesOn(m) /\ LoadStays(m)
    <3>1. m \in Threads
      BY Typed DEF LoadInv
    <3>2. LoadGoesOn(m)
      BY <2>1, <3>1 DEF LoadGoesOn, Others
    <3>3. TypesOf(m)' = TypesOf(m) /\ \A e \in TypesOf(m) : IsSet(e) => IsSet(e)'
      BY DEF TypesOf, IsSet, NodesOnly
    <3>4. m = t /\ thread'[t].pc \in Setting => thread[t].pc \in Setting
      BY <2>1, <3>2 DEF LoadGoesOn, Setting
    <3>5. /\ metatypes'[m].holder # NoOne =>
                thread'[metatypes'[m].holder].pc \in Makes \cup {"types"}
          /\ thread'[m].pc \in Setting => metatypes'[m].holder = m
      BY <3>4, LocksKept
    <3> QED BY <3>2, <3>3, <3>5 DEF LoadStays, LockStep
  <2>2. ASSUME t \in DOMAIN metatypes, LoadEnds(t) PROVE SetInv(t)' /\ OutcomeInv(t)'
    <3>1. thread'[t].pc = "clear" /\ thread[t].pc # "end" /\ OutcomeInv(t)
      BY <2>2 DEF LoadEnds, LoadInv
    <3>2. SetInv(t)'
      BY <2>2, <3>1, LocksKept DEF SetInv, Setting
    <3>3. Excused(t) => Excused(t)'
      BY <1>2, <1>4, <2>2, <3>1, ExcusesStay DEF LockStep
    <3>4. TypesOf(t)' = TypesOf(t) /\ \A e \in TypesOf(t) : IsSet(e)' = IsSet(e)
      BY DEF TypesOf, IsSet, NodesOnly
    <3>5. t \notin left' /\ ~metatypes'[t].cleared
      BY <2>2, <3>1 DEF OutcomeInv, LockStep
    <3> QED BY <2>2, <3>1, <3>2, <3>3, <3>4, <3>5 DEF OutcomeInv, LockStep, LoadEnds, Over, Setting
  <2> QED BY <1>1, <2>1, <2>2 DEF LoadsStep
<1>8. Quiet(t)
  BY <1>1 DEF Quiet, LockStep, NodesOnly
<1> QED BY <1>2, <1>3, <1>4, <1>5, <1>6, <1>7, <1>8, StepKeeps

-----------------------------------------------------------------------------
(* Threads go on. *)

\* The part of a step that concerns its thread.
ThreadStep(t) ==
  /\ thread' \in [Threads -> ThreadRec] /\ Others(t) /\ Onward(t)
  /\ Grows => PlaceInv(t)' /\ ReadInv(t)'

LEMMA MoveFacts ==
  ASSUME TypesInv, NEW t \in Threads, NEW r \in ThreadRec, thread' = [thread EXCEPT ![t] = r]
  PROVE  thread' \in [Threads -> ThreadRec] /\ Others(t) /\ thread'[t] = r
  BY DEF TypesInv, Others

LEMMA GoFacts ==
  ASSUME TypesInv, NEW t \in Threads, NEW place \in Places,
         \/ Go(t, place)
         \/ \E x \in Things : GoWith(t, place, x)
  PROVE  /\ thread' \in [Threads -> ThreadRec] /\ Others(t)
         /\ thread'[t].pc = place /\ thread'[t].at = thread[t].at
         /\ thread'[t].known = thread[t].known /\ thread'[t].type = thread[t].type
         /\ thread'[t].next = thread[t].next
         /\ Go(t, place) => thread'[t].subject = thread[t].subject
         /\ \A x \in Things : GoWith(t, place, x) => thread'[t].subject = x
<1>1. thread[t] \in ThreadRec
  BY DEF TypesInv
<1>2. CASE Go(t, place)
  <2>1. thread' = [thread EXCEPT ![t] = [thread[t] EXCEPT !.pc = place]]
    BY <1>2 DEF Go
  <2>2. [thread[t] EXCEPT !.pc = place] \in ThreadRec
    BY <1>1 DEF ThreadRec
  <2>3. thread' \in [Threads -> ThreadRec] /\ Others(t) /\ thread'[t] = [thread[t] EXCEPT !.pc = place]
    BY <2>1, <2>2, MoveFacts
  <2>4. ASSUME NEW x \in Things, GoWith(t, place, x) PROVE thread'[t].subject = x
    BY <2>4, <1>1 DEF GoWith, TypesInv, ThreadRec
  <2> QED BY <1>1, <2>3, <2>4 DEF ThreadRec
<1>3. ASSUME NEW x \in Things, GoWith(t, place, x)
      PROVE  /\ thread' \in [Threads -> ThreadRec] /\ Others(t)
             /\ thread'[t].pc = place /\ thread'[t].at = thread[t].at
             /\ thread'[t].known = thread[t].known /\ thread'[t].type = thread[t].type
             /\ thread'[t].next = thread[t].next /\ thread'[t].subject = x
  <2>1. thread' = [thread EXCEPT ![t] = [thread[t] EXCEPT !.pc = place, !.subject = x]]
    BY <1>3 DEF GoWith
  <2>2. [thread[t] EXCEPT !.pc = place, !.subject = x] \in ThreadRec
    BY <1>1 DEF ThreadRec
  <2>3. /\ thread' \in [Threads -> ThreadRec] /\ Others(t)
        /\ thread'[t] = [thread[t] EXCEPT !.pc = place, !.subject = x]
    BY <2>1, <2>2, MoveFacts
  <2> QED BY <1>1, <2>3 DEF ThreadRec
<1>4. ASSUME Go(t, place), NEW x \in Things, GoWith(t, place, x)
      PROVE  thread'[t].subject = thread[t].subject
  BY <1>4, <1>1 DEF Go, TypesInv, ThreadRec
<1> QED BY <1>2, <1>3, <1>4

(* A statement is over. *)
LEMMA FollowFacts ==
  ASSUME LoadInv, NEW t \in Threads, thread[t].pc \in InParse, NEW known \in Known,
         Follow(t, known)
  PROVE  /\ thread' \in [Threads -> ThreadRec] /\ Others(t)
         /\ thread'[t] = GoOn(t, StatementsOf(t), thread[t].at + 1, known)
         /\ thread'[t].at = thread[t].at + 1 /\ thread'[t].known = known
         /\ thread'[t].subject = Nothing
         /\ thread'[t].pc \in {"end", "find", "extern", "node", "proto", "finish"}
         /\ thread'[t].pc = "end" => t \notin Loaders
<1> DEFINE i == thread[t].at + 1
           r == GoOn(t, StatementsOf(t), i, known)
<1>1. TypesInv /\ PlaceInv(t) /\ thread[t] \in ThreadRec /\ thread[t].at \in Nat \ {0}
  BY DEF LoadInv, TypesInv, ThreadRec
<1>2. FileOf(Url(t)) \in DOMAIN web.files
  BY <1>1 DEF PlaceInv, Reading
<1>3. thread' = [thread EXCEPT ![t] = r]
  BY DEF Follow
<1>4. /\ Len(StatementsOf(t)) \in Nat /\ DOMAIN StatementsOf(t) = 1 .. Len(StatementsOf(t))
      /\ \A j \in DOMAIN StatementsOf(t) :
           StatementsOf(t)[j].kind \in {"extern", "node", "proto"}
  BY <1>1, <1>2, FileFacts DEF StatementsOf, TypesInv
<1>5. WentOn(r, t, StatementsOf(t), i, known)
  <2>1. i <= Len(StatementsOf(t)) => i \in DOMAIN StatementsOf(t)
    BY <1>1, <1>4
  <2>2. i \in Nat \ {0}
    BY <1>1
  <2>3. i <= Len(StatementsOf(t)) => StatementsOf(t)[i].kind \in {"extern", "node", "proto"}
    BY <2>1, <1>4
  <2> HIDE DEF i
  <2> QED BY <2>2, <2>3, <1>1, <1>4, GoOnFacts
<1> HIDE DEF r
<1>6. thread' \in [Threads -> ThreadRec] /\ Others(t) /\ thread'[t] = r
  BY <1>1, <1>3, <1>5, MoveFacts DEF WentOn
<1>7. /\ r.at = i /\ r.subject = Nothing /\ r.known = known
      /\ r.pc \in {"end", "find", "extern", "node", "proto", "finish"}
      /\ r.pc = "end" => t \notin Loaders
  BY <1>1, <1>4, <1>5, NumbersAreNotOpeners DEF WentOn
<1> QED BY <1>6, <1>7 DEF r

LEMMA FollowKeeps ==
  ASSUME LoadInv, NEW t \in Threads, thread[t].pc \in InParse, NEW known \in Known,
         Follow(t, known),
         Grows => \A x : (\E n \in DOMAIN known : x = known[n]) => ValidType(x)',
         Grows => \A s : s = StatementAt(t) /\ s.kind = "proto" =>
                            Kept(Url(t) \o Path(s))' /\ Kept(Url(t))'
  PROVE  /\ ThreadStep(t) /\ HasNoMore(t)
         /\ t \in DOMAIN metatypes => LoadGoesOn(t) /\ thread'[t].pc \notin Over
         /\ thread'[t].pc \notin Setting /\ thread'[t].subject = Nothing
         /\ thread'[t].at = thread[t].at + 1
<1> DEFINE i == thread[t].at + 1
           r == GoOn(t, StatementsOf(t), i, known)
<1>1. TypesInv /\ PlaceInv(t) /\ ReadInv(t) /\ thread[t] \in ThreadRec /\ thread[t].at \in Nat \ {0}
  BY DEF LoadInv, TypesInv, ThreadRec
<1>2. /\ FileOf(Url(t)) \in DOMAIN web.files /\ thread[t].at \in DOMAIN StatementsOf(t)
      /\ t \in Openers => t \in DOMAIN web.opened
      /\ t \in Loaders => t \in DOMAIN metatypes
  BY <1>1 DEF PlaceInv, Reading, InParse
<1>4. \A j \in DOMAIN StatementsOf(t) : j \in Nat
  BY <1>1, <1>2, FileFacts DEF StatementsOf, TypesInv
<1> HIDE DEF r
<1>6. thread' \in [Threads -> ThreadRec] /\ Others(t) /\ thread'[t] = r
  BY FollowFacts DEF r
<1>7. /\ r.at = i /\ r.subject = Nothing
      /\ r.pc \in {"end", "find", "extern", "node", "proto", "finish"}
      /\ r.pc = "end" => t \notin Loaders
  BY FollowFacts DEF r
<1>8. Onward(t)
  BY <1>1, <1>6, <1>7 DEF Onward
<1>9. ASSUME Grows PROVE PlaceInv(t)' /\ ReadInv(t)'
  <2>1. ASSUME NEW j \in DOMAIN StatementsOf(t), j < i, StatementsOf(t)[j].kind = "proto"
        PROVE  Kept(Url(t) \o Path(StatementsOf(t)[j]))' /\ Kept(Url(t))'
    <3>0. Url(t)' = Url(t) /\ StatementsOf(t)' = StatementsOf(t)
      BY <1>2, <1>9, UrlsStay DEF Threads
    <3>1. CASE j = thread[t].at
      <4>1. StatementAt(t) = StatementsOf(t)[j]
        BY <3>1 DEF StatementAt
      <4>2. ASSUME NEW s, s = StatementsOf(t)[j]
            PROVE  Kept(Url(t) \o Path(s))' /\ Kept(Url(t))'
        BY <2>1, <4>1, <4>2, <1>9
      <4>3. (Path(StatementsOf(t)[j]))' = Path(StatementsOf(t)[j])
        BY <3>0
      <4> QED BY <3>0, <4>2, <4>3
    <3>2. CASE j < thread[t].at
      <4>1. Kept(Url(t) \o Path(StatementsOf(t)[j])) /\ Kept(Url(t))
        BY <1>1, <2>1, <3>2 DEF ReadInv, Finished
      <4> QED BY <3>0, <4>1, <1>9 DEF Grows
    <3> QED BY <3>1, <3>2, <2>1, <1>1, <1>4
  <2>2. ComesTo(t, i, known)
    BY <1>2, <1>6, <1>9, <2>1 DEF ComesTo, r
  <2> QED BY <1>1, <1>9, <2>2, ThreadComes
<1>10. "idle" \notin Over \cup Setting /\ InParse \cap (Over \cup Setting) = {}
  BY DEF Over, Setting, InParse
<1> QED BY <1>1, <1>2, <1>6, <1>7, <1>8, <1>9, <1>10, Typed
    DEF ThreadStep, HasNoMore, LoadGoesOn, Over, Setting, InSet

(* Mutexes. *)
LEMMA SeqOfFunction ==
  ASSUME NEW T, NEW n \in Nat, NEW s \in [1 .. n -> T]
  PROVE  s \in Seq(T) /\ Len(s) = n
<1>1. s \in Seq(T)
  BY SeqDef
<1>2. DOMAIN s = 1 .. Len(s) /\ Len(s) \in Nat /\ DOMAIN s = 1 .. n
  BY <1>1, LenProperties
<1>3. ASSUME NEW k \in Nat, 1 .. k = 1 .. n PROVE k = n
  <2>1. k \in 1 .. k \/ k = 0
    OBVIOUS
  <2>2. n \in 1 .. n \/ n = 0
    OBVIOUS
  <2> QED BY <1>3, <2>1, <2>2
<1> QED BY <1>1, <1>2, <1>3

LEMMA UnlockFacts ==
  ASSUME TypesInv, NEW t \in Threads, NEW keep, metatypes' = Unlock(t, keep)
  PROVE  /\ LockStep
         /\ \A m \in DOMAIN metatypes :
              metatypes'[m].holder = IF metatypes[m].holder = t /\ m # keep THEN NoOne
                                     ELSE metatypes[m].holder
<1>1. DOMAIN metatypes = 1 .. Len(metatypes) /\ Len(metatypes) \in Nat
  BY Typed
<1> DEFINE h(m) == IF metatypes[m].holder = t /\ m # keep THEN NoOne ELSE metatypes[m].holder
<1>2. \A m \in DOMAIN metatypes :
        /\ metatypes[m] \in MetatypeRec /\ h(m) \in Threads \cup {NoOne}
        /\ metatypes'[m] = [metatypes[m] EXCEPT !.holder = h(m)]
  BY Typed DEF Unlock, MetatypeRec
<1> HIDE DEF h
<1>3. \A m \in DOMAIN metatypes :
        /\ metatypes'[m] \in MetatypeRec
        /\ metatypes'[m].wants = metatypes[m].wants /\ metatypes'[m].proto = metatypes[m].proto
        /\ metatypes'[m].types = metatypes[m].types /\ metatypes'[m].cleared = metatypes[m].cleared
        /\ metatypes'[m].holder = h(m)
  BY <1>2 DEF MetatypeRec
<1>4. metatypes' \in [1 .. Len(metatypes) -> MetatypeRec]
  BY <1>1, <1>3 DEF Unlock
<1> QED BY <1>1, <1>3, <1>4, SeqOfFunction DEF LockStep, h

LEMMA LockFacts ==
  ASSUME TypesInv, NEW t \in Threads, NEW m \in DOMAIN metatypes,
         metatypes' = [metatypes EXCEPT ![m].holder = t]
  PROVE  /\ LockStep
         /\ \A n \in DOMAIN metatypes : metatypes'[n].holder = IF n = m THEN t ELSE metatypes[n].holder
<1>1. DOMAIN metatypes = 1 .. Len(metatypes) /\ Len(metatypes) \in Nat
  BY Typed
<1>2. \A n \in DOMAIN metatypes :
        /\ metatypes[n] \in MetatypeRec
        /\ metatypes'[n] = IF n = m THEN [metatypes[m] EXCEPT !.holder = t] ELSE metatypes[n]
  BY Typed
<1>3. \A n \in DOMAIN metatypes :
        /\ metatypes'[n] \in MetatypeRec
        /\ metatypes'[n].wants = metatypes[n].wants /\ metatypes'[n].proto = metatypes[n].proto
        /\ metatypes'[n].types = metatypes[n].types /\ metatypes'[n].cleared = metatypes[n].cleared
        /\ metatypes'[n].holder = IF n = m THEN t ELSE metatypes[n].holder
  BY <1>2 DEF MetatypeRec
<1>4. metatypes' \in [1 .. Len(metatypes) -> MetatypeRec]
  BY <1>1, <1>3
<1> QED BY <1>1, <1>3, <1>4, SeqOfFunction DEF LockStep

\* A thread that does nothing to a mutex holds none, or keeps on making or replacing nodes.
LEMMA NoLocks ==
  ASSUME LoadInv, NEW t \in Threads, UNCHANGED metatypes,
         thread[t].pc \in Makes \cup {"types"} => thread'[t].pc \in Makes \cup {"types"}
  PROVE  LockStep /\ LocksOf(t)
<1>1. LockStep
  BY DEF LoadInv, TypesInv, LockStep
<1>2. LocksOf(t)
  <2>1. ASSUME NEW m \in DOMAIN metatypes, metatypes[m].holder = t
        PROVE  thread[t].pc \in Makes \cup {"types"}
    BY <2>1, NumbersAreNotOpeners DEF LoadInv, SetInv
  <2> QED BY <2>1 DEF LocksOf
<1> QED BY <1>1, <1>2

\* What t knows stays valid.
LEMMA KnownStays ==
  ASSUME LoadInv, Grows, NEW t \in Threads
  PROVE  /\ \A x : ValidType(x) => ValidType(x)'
         /\ \A x : (\E n \in DOMAIN thread[t].known : x = thread[t].known[n]) => ValidType(x)'
<1>1. \A x : ValidType(x) => ValidType(x)'
  BY DEF ValidType, Grows
<1>2. ValidType(thread[t].type) /\ \A n \in DOMAIN thread[t].known : ValidType(thread[t].known[n])
  BY DEF LoadInv, PlaceInv
<1> QED BY <1>1, <1>2

\* The thread stays at its statement.
LEMMA SameStatement ==
  ASSUME LoadInv, Grows, NEW t \in Threads, thread[t].pc \in InParse,
         thread'[t].at = thread[t].at, thread'[t].known = thread[t].known,
         thread'[t].type = thread[t].type, thread'[t].pc \in InParse,
         thread'[t].pc \in PlacesOf(StatementAt(t).kind),
         thread'[t].pc \in {"id", "url", "type"} =>
           \E m \in DOMAIN metatypes' : thread'[t].subject = Metatype(m),
         thread'[t].pc \in {"check", "first"} =>
           /\ thread'[t].subject = Thing("proto", t, Path(StatementAt(t)))
           /\ thread'[t].subject \in DOMAIN bodies'
           /\ \A s : s = StatementAt(t) => Kept(Url(t) \o Path(s))'
  PROVE  PlaceInv(t)' /\ ReadInv(t)'
<1>1. PlaceInv(t) /\ ReadInv(t) /\ thread[t].at \in Nat
  BY DEF LoadInv, TypesInv, ThreadRec
<1>2. /\ FileOf(Url(t)) \in DOMAIN web.files /\ thread[t].at \in DOMAIN StatementsOf(t)
      /\ t \in Openers => t \in DOMAIN web.opened
      /\ t \in Loaders => t \in DOMAIN metatypes
  BY <1>1 DEF PlaceInv, Reading, InParse
<1>3. /\ Url(t)' = Url(t) /\ StatementsOf(t)' = StatementsOf(t) /\ StatementAt(t)' = StatementAt(t)
  BY <1>2, UrlsStay DEF StatementAt, Threads
<1>4. InParse \cap ({"idle", "fetch", "find", "clear", "failed"} \cup InSet) = {}
  BY DEF InParse, InSet
<1>5. PlaceInv(t)'
  <2>1. ValidType(thread[t].type)' /\ \A n \in DOMAIN thread'[t].known : ValidType(thread[t].known[n])'
    <3>1. \A x : x = thread[t].type \/ (\E n \in DOMAIN thread[t].known : x = thread[t].known[n])
                   => ValidType(x)'
      BY KnownStays, <1>1 DEF PlaceInv
    <3> QED BY <3>1
  <2>2. (\E m \in DOMAIN metatypes' : thread'[t].subject = Metatype(m))
          => (\E m \in DOMAIN metatypes : thread[t].subject = Metatype(m))'
    BY DEF Metatype
  <2>3. FileOf(Url(t))' \in DOMAIN web'.files /\ web' = web
    BY <1>2, <1>3 DEF FileOf, Grows
  <2>4. t \in Loaders => t \in DOMAIN metatypes'
    BY <1>2 DEF Grows
  <2>5. thread'[t].pc \in {"check", "first"} =>
          thread'[t].subject = Thing("proto", t, Path(StatementAt(t)'))
    BY <1>3
  <2> QED BY <1>2, <1>3, <1>4, <2>1, <2>2, <2>3, <2>4, <2>5 DEF PlaceInv
<1>6. ReadInv(t)'
  <2>1. ASSUME NEW i \in DOMAIN StatementsOf(t), StatementsOf(t)[i].kind = "proto", Finished(t, i)'
        PROVE  Kept(Url(t) \o Path(StatementsOf(t)[i]))'
    <3>1. CASE Finished(t, i)
      <4>1. Kept(Url(t) \o Path(StatementsOf(t)[i]))
        BY <1>1, <2>1, <3>1 DEF ReadInv
      <4> QED BY <4>1, <1>3 DEF Grows
    <3>2. CASE ~Finished(t, i)
      <4>1. i = thread[t].at /\ thread'[t].pc \in {"check", "first"}
        BY <2>1, <3>2 DEF Finished
      <4>2. \A s : s = StatementsOf(t)[i] => Kept(Url(t) \o Path(s))'
        BY <4>1 DEF StatementAt
      <4> QED BY <4>2, <1>3
    <3> QED BY <3>1, <3>2
  <2>2. ASSUME NEW i \in DOMAIN StatementsOf(t), StatementsOf(t)[i].kind = "proto", i < thread'[t].at
        PROVE  Kept(Url(t))'
    <3>1. Kept(Url(t))
      BY <1>1, <2>2 DEF ReadInv
    <3> QED BY <3>1, <1>3 DEF Grows
  <2> QED BY <2>1, <2>2, <1>3 DEF ReadInv
<1> QED BY <1>5, <1>6

\* A load thread replaces a node.
LEMMA ReplaceFacts ==
  ASSUME LoadInv, NEW t \in Threads, thread[t].pc \in Setting
  PROVE  /\ t \in DOMAIN metatypes /\ t \notin Openers
         /\ metatypes[t].holder = t /\ metatypes[t].proto = thread[t].subject
         /\ thread[t].subject \in DOMAIN bodies
         /\ metatypes[t].types \in Seq(Things) /\ thread[t].next \in Nat \ {0}
         /\ thread[t].next <= Len(metatypes[t].types) =>
              /\ thread[t].next \in DOMAIN metatypes[t].types
              /\ TypeAt(t) \in TypesOf(t) /\ etypes[TypeAt(t)] \in EtypeRec
         /\ thread[t].pc = "replace" => thread[t].next <= Len(metatypes[t].types)
<1>1. PlaceInv(t) /\ thread[t] \in ThreadRec
  BY DEF LoadInv, TypesInv
<1>2. t \notin Openers /\ t \in Loaders /\ t \in DOMAIN metatypes /\ thread[t].subject \in DOMAIN bodies
  BY <1>1 DEF PlaceInv, Setting, InSet, Threads
<1>3. SetInv(t) /\ OutcomeInv(t) /\ metatypes[t].types \in Seq(Things)
  BY <1>2, Typed DEF LoadInv, MetatypeRec
<1>4. thread[t].next \in Nat \ {0}
  BY <1>1, <1>3 DEF SetInv, ThreadRec
<1>5. /\ DOMAIN metatypes[t].types = 1 .. Len(metatypes[t].types)
      /\ Len(metatypes[t].types) \in Nat
  BY <1>3, LenProperties
<1>6. thread[t].next <= Len(metatypes[t].types) => thread[t].next \in DOMAIN metatypes[t].types
  BY <1>4, <1>5
<1>7. thread[t].next \in DOMAIN metatypes[t].types =>
        TypeAt(t) \in TypesOf(t) /\ etypes[TypeAt(t)] \in EtypeRec
  BY <1>3 DEF OutcomeInv, TypeAt, TypesOf, LoadInv, TypesInv
<1>8. thread[t].pc = "replace" => thread[t].next <= Len(metatypes[t].types)
  BY <1>3, <1>5 DEF SetInv
<1> QED BY <1>2, <1>3, <1>4, <1>6, <1>7, <1>8 DEF SetInv

LEMMA MadeKeeps ==
  ASSUME LoadInv, NEW t \in Threads, Making(t), Made(t)
  PROVE  /\ ThreadStep(t) /\ HasNoMore(t) /\ LockStep /\ LocksOf(t)
         /\ t \in DOMAIN metatypes => LoadGoesOn(t)
<1>1. TypesInv /\ PlaceInv(t) /\ thread[t] \in ThreadRec /\ thread[t].pc \in Makes
  BY DEF LoadInv, TypesInv, Making, At
<1>2. "types" \in Places /\ "replace" \in Places /\ "finish" \in Places
  BY DEF Places, InSet, InParse
<1>3. CASE At(t, "node") \/ At(t, "proto")
  <2>1. metatypes' = Unlock(t, NoOne) /\ thread[t].pc \in {"node", "proto"} /\ ~At(t, "replace")
    BY <1>3 DEF Made, At
  <2>2. LockStep
    BY <2>1, <1>1, UnlockFacts
  <2>3. ASSUME thread'[t].pc \notin Setting PROVE LocksOf(t)
    <3>1. \A m \in DOMAIN metatypes :
            metatypes'[m].holder = IF metatypes[m].holder = t /\ m # NoOne THEN NoOne
                                   ELSE metatypes[m].holder
      BY <2>1, <1>1, UnlockFacts
    <3> QED BY <3>1, <2>3, <1>1, Typed DEF LocksOf
  <2>4. CASE At(t, "node")
    <3>1. Follow(t, thread[t].known) /\ thread[t].pc = "node"
      BY <2>4 DEF Made, At
    <3>2. thread[t].known \in Known /\ thread[t].pc \in InParse
      BY <1>1, <3>1 DEF ThreadRec, InParse
    <3>3. StatementAt(t).kind # "proto"
      BY <1>1, <3>1, <3>2 DEF PlaceInv, PlacesOf
    <3>4. /\ ThreadStep(t) /\ HasNoMore(t) /\ thread'[t].pc \notin Setting
          /\ t \in DOMAIN metatypes => LoadGoesOn(t)
      BY <3>1, <3>2, <3>3, FollowKeeps, KnownStays
    <3> QED BY <2>2, <2>3, <3>4
  <2>5. CASE At(t, "proto")
    <3>1. Go(t, "finish") /\ thread[t].pc = "proto"
      BY <2>5 DEF Made, At
    <3>2. /\ thread' \in [Threads -> ThreadRec] /\ Others(t)
          /\ thread'[t].pc = "finish" /\ thread'[t].at = thread[t].at
          /\ thread'[t].known = thread[t].known /\ thread'[t].type = thread[t].type
      BY <3>1, <1>1, <1>2, GoFacts
    <3>3. thread[t].at \in Nat
      BY <1>1 DEF ThreadRec
    <3>4. Onward(t)
      BY <3>1, <3>2, <3>3 DEF Onward
    <3>5. thread[t].pc \in InParse /\ thread'[t].pc \in InParse
      BY <3>1, <3>2 DEF InParse
    <3>6. thread'[t].pc \in PlacesOf(StatementAt(t).kind)
      <4>1. StatementAt(t).kind \in {"extern", "node", "proto"}
        BY <1>1, <3>5, FileFacts DEF PlaceInv, StatementAt, StatementsOf, Reading, TypesInv
      <4> QED BY <4>1, <1>1, <3>1, <3>2, <3>5 DEF PlaceInv, PlacesOf
    <3>7. Grows => PlaceInv(t)' /\ ReadInv(t)'
      BY <3>2, <3>5, <3>6, SameStatement
    <3>8. ThreadStep(t) /\ HasNoMore(t) /\ LoadGoesOn(t) /\ thread'[t].pc \notin Setting
      BY <3>1, <3>2, <3>4, <3>7 DEF ThreadStep, HasNoMore, LoadGoesOn, Setting, Over, InSet
    <3> QED BY <2>2, <2>3, <3>8
  <2> QED BY <1>3, <2>4, <2>5
<1>4. CASE At(t, "replace")
  <2> DEFINE nodes == etypes[TypeAt(t)].nodes
             i == thread[t].node + 1
             r == IF i > Len(nodes) THEN [thread[t] EXCEPT !.pc = "types", !.next = @ + 1]
                  ELSE [thread[t] EXCEPT !.node = i, !.type = thread[t].subject, !.scope = nodes[i]]
  <2>1. thread[t].pc = "replace" /\ thread[t].pc \in Setting /\ t # NoOne
    BY <1>4, NumbersAreNotOpeners DEF At, Setting
  <2>2. /\ t \in DOMAIN metatypes /\ t \notin Openers /\ metatypes[t].holder = t
        /\ thread[t].subject \in DOMAIN bodies /\ nodes \in Seq(Threads)
    BY <2>1, ReplaceFacts DEF EtypeRec
  <2>3. thread' = [thread EXCEPT ![t] = r]
    BY <1>4, <2>1 DEF Made, At
  <2>4. i > Len(nodes) \/ nodes[i] \in Threads
    <3>1. thread[t].node \in Nat /\ Len(nodes) \in Nat
      BY <1>1, <2>2, LenProperties DEF ThreadRec
    <3> HIDE DEF nodes
    <3>2. i > Len(nodes) \/ i \in 1 .. Len(nodes)
      BY <3>1
    <3> QED BY <2>2, <3>2, ElementOfSeq
  <2>5. /\ r \in ThreadRec /\ r.at = thread[t].at /\ r.known = thread[t].known
        /\ r.subject = thread[t].subject /\ r.type \in {thread[t].type, thread[t].subject}
        /\ \/ r.pc = "replace" /\ r.next = thread[t].next
           \/ r.pc = "types" /\ r.next = thread[t].next + 1
    <3>1. ASSUME NEW q \in ThreadRec, NEW c \in Places, NEW n \in Nat
          PROVE  [q EXCEPT !.pc = c, !.next = n] \in ThreadRec
      BY DEF ThreadRec
    <3>2. ASSUME NEW q \in ThreadRec, NEW k \in Nat, NEW x \in Things, NEW u \in Threads
          PROVE  [q EXCEPT !.node = k, !.type = x, !.scope = u] \in ThreadRec
      BY DEF ThreadRec
    <3>3. i \in Nat /\ thread[t].subject \in Things /\ thread[t].next + 1 \in Nat
      BY <1>1 DEF ThreadRec
    <3> HIDE DEF nodes, i
    <3>4. CASE i > Len(nodes)
      <4>1. r = [thread[t] EXCEPT !.pc = "types", !.next = thread[t].next + 1]
        BY <3>4
      <4> HIDE DEF r
      <4>2. [thread[t] EXCEPT !.pc = "types", !.next = thread[t].next + 1] \in ThreadRec
        BY <1>1, <1>2, <3>1, <3>3
      <4>3. r \in ThreadRec
        BY <4>1, <4>2
      <4>4. /\ r.at = thread[t].at /\ r.known = thread[t].known
            /\ r.subject = thread[t].subject /\ r.type = thread[t].type
            /\ r.pc = "types" /\ r.next = thread[t].next + 1
        BY <4>1, <1>1 DEF ThreadRec
      <4> QED BY <4>3, <4>4
    <3>5. CASE ~(i > Len(nodes))
      <4>1. r = [thread[t] EXCEPT !.node = i, !.type = thread[t].subject, !.scope = nodes[i]]
        BY <3>5
      <4>2. nodes[i] \in Threads
        BY <2>4, <3>5 DEF i
      <4> HIDE DEF r
      <4>3. [thread[t] EXCEPT !.node = i, !.type = thread[t].subject, !.scope = nodes[i]] \in ThreadRec
        BY <1>1, <3>2, <3>3, <4>2
      <4>4. r \in ThreadRec
        BY <4>1, <4>3
      <4>5. /\ r.at = thread[t].at /\ r.known = thread[t].known
            /\ r.subject = thread[t].subject /\ r.type = thread[t].subject
            /\ r.pc = thread[t].pc /\ r.next = thread[t].next
        BY <4>1, <1>1 DEF ThreadRec
      <4> QED BY <2>1, <4>4, <4>5
    <3> QED BY <3>4, <3>5
  <2> HIDE DEF r
  <2>6. thread' \in [Threads -> ThreadRec] /\ Others(t) /\ thread'[t] = r
    BY <1>1, <2>3, <2>5, MoveFacts
  <2>7. Onward(t) /\ HasNoMore(t) /\ LoadGoesOn(t)
    <3>1. thread[t].at \in Nat
      BY <1>1 DEF ThreadRec
    <3> QED BY <2>1, <2>5, <2>6, <3>1 DEF Onward, HasNoMore, LoadGoesOn, InSet
  <2>8. ASSUME Grows PROVE PlaceInv(t)' /\ ReadInv(t)'
    <3>1. \A x : x = r.type \/ (\E n \in DOMAIN r.known : x = r.known[n]) => ValidType(x)'
      BY <1>1, <2>2, <2>5, <2>8, KnownStays DEF PlaceInv, ValidType
    <3>2. ValidType(thread[t].type)' /\ \A n \in DOMAIN thread'[t].known : ValidType(thread[t].known[n])'
      BY <3>1, <2>6
    <3>3. thread'[t].subject \in DOMAIN bodies' /\ t \in DOMAIN metatypes'
      BY <2>2, <2>5, <2>6, <2>8 DEF Grows
    <3>4. FileOf(Url(t))' \in DOMAIN web'.files
      <4>1. FileOf(Url(t)) \in DOMAIN web.files /\ Url(t)' = Url(t)
        BY <1>1, <2>1, <2>2, <2>8, UrlsStay DEF PlaceInv, Reading, InSet
      <4> QED BY <4>1, <2>8 DEF FileOf, Grows
    <3>5. thread'[t].pc \in {"types", "replace"}
      BY <2>5, <2>6
    <3> QED BY <3>2, <3>3, <3>4, <3>5, <2>2 DEF PlaceInv, ReadInv, InParse
  <2>9. LockStep /\ LocksOf(t)
    <3>1. metatypes' = Unlock(t, t)
      BY <1>4 DEF Made
    <3>2. \A m \in DOMAIN metatypes :
            metatypes'[m].holder = IF metatypes[m].holder = t /\ m # t THEN NoOne
                                   ELSE metatypes[m].holder
      BY <3>1, <1>1, UnlockFacts
    <3>3. thread'[t].pc \in Makes \cup {"types"}
      BY <2>5, <2>6 DEF Makes
    <3> QED BY <3>1, <3>2, <3>3, <1>1, UnlockFacts DEF LocksOf
  <2> QED BY <2>6, <2>7, <2>8, <2>9 DEF ThreadStep
<1> QED BY <1>3, <1>4 DEF Making, Makes

-----------------------------------------------------------------------------
(* Nodes are made. *)

\* What a type that can be made is.
LEMMA ValidTypeFacts ==
  ASSUME LoadInv, NEW x, ValidType(x)
  PROVE  /\ x \in Things
         /\ x.kind = "proto" => x \in DOMAIN bodies /\ ValidType(bodies[x])
         /\ x.kind = "extern" =>
              /\ x \in DOMAIN etypes /\ EtypeInv(x) /\ etypes[x] \in EtypeRec
              /\ etypes[x].of \in DOMAIN metatypes /\ x \in TypesOf(etypes[x].of)
<1>1. CASE x = Nothing
  BY <1>1, ThingFacts
<1>2. CASE x \in DOMAIN bodies
  <2>1. BodyInv(x) /\ x \in Things
    BY <1>2 DEF LoadInv, TypesInv
  <2>2. x.kind = "proto"
    BY <2>1 DEF BodyInv, Thing
  <2> QED BY <1>2, <2>1, <2>2 DEF BodyInv
<1>3. CASE x \in DOMAIN etypes
  <2>1. EtypeInv(x) /\ x \in Things /\ etypes[x] \in EtypeRec
    BY <1>3 DEF LoadInv, TypesInv
  <2>2. x.kind = "extern"
    BY <2>1 DEF EtypeInv, Thing
  <2> QED BY <1>3, <2>1, <2>2 DEF EtypeInv, TypesOf
<1> QED BY <1>1, <1>2, <1>3 DEF ValidType

\* A type passes the making of a node on to another.
LEMMA PassOn ==
  ASSUME LoadInv, NEW t \in Threads, thread[t].pc \in Makes, NEW x, ValidType(x),
         thread' = [thread EXCEPT ![t].type = x]
  PROVE  /\ ThreadStep(t) /\ HasNoMore(t) /\ thread'[t].pc = thread[t].pc
         /\ t \in DOMAIN metatypes => LoadGoesOn(t)
<1>1. PlaceInv(t) /\ ReadInv(t) /\ thread[t] \in ThreadRec /\ TypesInv /\ x \in Things
  BY ValidTypeFacts DEF LoadInv, TypesInv
<1>2. thread' = [thread EXCEPT ![t] = [thread[t] EXCEPT !.type = x]]
  OBVIOUS
<1>3. [thread[t] EXCEPT !.type = x] \in ThreadRec
  BY <1>1 DEF ThreadRec
<1>4. thread' \in [Threads -> ThreadRec] /\ Others(t) /\ thread'[t] = [thread[t] EXCEPT !.type = x]
  BY <1>1, <1>2, <1>3, MoveFacts
<1>5. /\ thread'[t].pc = thread[t].pc /\ thread'[t].at = thread[t].at
      /\ thread'[t].known = thread[t].known /\ thread'[t].type = x
      /\ thread'[t].subject = thread[t].subject /\ thread'[t].next = thread[t].next
      /\ thread[t].at \in Nat
  BY <1>1, <1>4 DEF ThreadRec
<1>6. Onward(t) /\ HasNoMore(t)
  BY <1>5 DEF Onward, HasNoMore
<1>7. LoadGoesOn(t)
  BY <1>5 DEF LoadGoesOn, Makes, Setting, Over
<1>8. ASSUME Grows PROVE PlaceInv(t)' /\ ReadInv(t)'
  <2>1. t \in Openers \/ t \in DOMAIN metatypes
    BY <1>1 DEF PlaceInv, Threads, Makes
  <2>2. Url(t)' = Url(t) /\ StatementsOf(t)' = StatementsOf(t) /\ StatementAt(t)' = StatementAt(t)
    BY <2>1, <1>5, <1>8, UrlsStay DEF StatementAt
  <2>3. ValidType(thread[t].type)' /\ \A n \in DOMAIN thread'[t].known : ValidType(thread[t].known[n])'
    <3>1. \A y : y = x \/ (\E n \in DOMAIN thread[t].known : y = thread[t].known[n]) => ValidType(y)'
      BY <1>8, KnownStays
    <3> QED BY <3>1, <1>5
  <2>4. PlaceInv(t)'
    <3>1. thread'[t].pc \notin {"id", "url", "type", "check", "first", "find"}
      BY <1>5 DEF Makes
    <3>2. FileOf(Url(t))' = FileOf(Url(t)) /\ web' = web /\ DOMAIN bodies \subseteq DOMAIN bodies'
      BY <2>2, <1>8 DEF Grows, FileOf
    <3>3. t \in Loaders => t \in DOMAIN metatypes'
      BY <2>1, <1>8, NumbersAreNotOpeners DEF Grows
    <3>4. t \in Loaders => t \in DOMAIN metatypes
      BY <2>1, NumbersAreNotOpeners
    <3> QED BY <1>1, <1>5, <2>2, <2>3, <3>1, <3>2, <3>3, <3>4 DEF PlaceInv
  <2>5. ReadInv(t)'
    <3>1. \A i : Finished(t, i)' <=> Finished(t, i)
      BY <1>5 DEF Finished
    <3> QED BY <1>1, <1>5, <1>8, <2>2, <3>1 DEF ReadInv, Grows
  <2> QED BY <2>4, <2>5
<1> QED BY <1>4, <1>5, <1>6, <1>7, <1>8 DEF ThreadStep

LEMMA StutterKeeps ==
  ASSUME LoadInv, UNCHANGED <<web, thread, registry, metatypes, etypes, bodies, left, overwritten>>,
         broke' \in {"nothing", "proto", "metatype", "expired"}
  PROVE  LoadInv' /\ Stays /\ \A t : Quiet(t)
<1>1. TypesInv'
  BY DEF LoadInv, TypesInv, Metatype
<1>2. Grows /\ BodiesStay
  BY DEF Grows, BodiesStay, Kept, IsProto
<1>3. DeadStays
  BY DEF DeadStays, ProtoLives, Registered, Holds
<1>4. \A t \in Threads : PlaceInv(t)' /\ ReadInv(t)'
  BY <1>2, OtherThread DEF LoadInv
<1>5. AllOnward
  <2>1. \A t \in Threads : thread[t].at \in Nat
    BY DEF LoadInv, TypesInv, ThreadRec
  <2> QED BY <2>1 DEF AllOnward, Onward
<1>6. TypesStep
  BY DEF TypesStep, LoadInv, EtypeInv
<1>7. LoadsStep
  <2>1. ASSUME NEW m \in DOMAIN metatypes PROVE LoadGoesOn(m) /\ LoadStays(m)
    <3>1. SetInv(m)
      BY DEF LoadInv
    <3> QED BY <3>1 DEF LoadGoesOn, LoadStays, SetInv, TypesOf, IsSet
  <2> QED BY <2>1 DEF LoadsStep
<1>8. \A t : Quiet(t)
  BY DEF Quiet, Others
<1> QED BY <1>1, <1>2, <1>3, <1>4, <1>5, <1>6, <1>7, <1>8, StepKeeps

\* What UNCHANGED leaves of the types.
LEMMA NoNodes ==
  ASSUME LoadInv, UNCHANGED etypes
  PROVE  NodesOnly
  BY DEF LoadInv, TypesInv, NodesOnly

LEMMA MakeBuiltInKeeps ==
  ASSUME LoadInv, NEW t \in Threads, MakeBuiltIn(t)
  PROVE  LoadInv' /\ Stays /\ Quiet(t)
<1>1. Making(t) /\ Made(t)
  BY DEF MakeBuiltIn, Making, Makes
<1>2. /\ ThreadStep(t) /\ HasNoMore(t) /\ LockStep /\ LocksOf(t)
      /\ t \in DOMAIN metatypes => LoadGoesOn(t)
  BY <1>1, MadeKeeps
<1>3. NodesOnly /\ UNCHANGED <<web, registry, bodies, broke, left, overwritten>>
  BY NoNodes DEF MakeBuiltIn
<1> QED BY <1>2, <1>3, PlainStep DEF ThreadStep

LEMMA MakeInstanceKeeps ==
  ASSUME LoadInv, NEW t \in Threads, MakeInstance(t)
  PROVE  LoadInv' /\ Stays /\ Quiet(t)
<1> DEFINE x == thread[t].type
<1>1. Making(t) /\ thread[t].pc \in Makes /\ x.kind = "proto"
  BY DEF MakeInstance, Making, At
<1>2. ValidType(x)
  BY DEF LoadInv, PlaceInv
<1>3. CASE ~ProtoLives(x)
  <2>1. Break("proto")
    BY <1>3 DEF MakeInstance
  <2> QED BY <2>1, StutterKeeps DEF Break
<1>4. CASE ProtoLives(x)
  <2>1. NodesOnly /\ UNCHANGED <<web, registry, bodies, broke, left, overwritten>>
    BY <1>4, NoNodes DEF MakeInstance
  <2>2. CASE bodies[x] = Nothing
    <3>1. Made(t)
      BY <1>4, <2>2 DEF MakeInstance
    <3>2. /\ ThreadStep(t) /\ HasNoMore(t) /\ LockStep /\ LocksOf(t)
          /\ t \in DOMAIN metatypes => LoadGoesOn(t)
      BY <1>1, <3>1, MadeKeeps
    <3> QED BY <2>1, <3>2, PlainStep DEF ThreadStep
  <2>3. CASE bodies[x] # Nothing
    <3>1. thread' = [thread EXCEPT ![t].type = bodies[x]] /\ UNCHANGED metatypes
      BY <1>4, <2>3 DEF MakeInstance
    <3>2. ValidType(bodies[x])
      BY <1>1, <1>2, ValidTypeFacts
    <3> HIDE DEF x
    <3>3. /\ ThreadStep(t) /\ HasNoMore(t) /\ thread'[t].pc = thread[t].pc
          /\ t \in DOMAIN metatypes => LoadGoesOn(t)
      BY <1>1, <3>1, <3>2, PassOn
    <3>4. LockStep /\ LocksOf(t)
      BY <1>1, <3>1, <3>3, NoLocks
    <3> QED BY <2>1, <3>3, <3>4, PlainStep DEF ThreadStep
  <2> QED BY <2>2, <2>3
<1> QED BY <1>3, <1>4

LEMMA MakeExternKeeps ==
  ASSUME LoadInv, NEW t \in Threads, MakeExtern(t)
  PROVE  LoadInv' /\ Stays /\ Quiet(t)
<1> DEFINE e == thread[t].type
           m == etypes[e].of
<1>1. /\ Making(t) /\ thread[t].pc \in Makes /\ e.kind = "extern" /\ Free(m)
      /\ UNCHANGED <<web, registry, bodies, broke, overwritten>>
  BY DEF MakeExtern, Making, At
<1>2. ValidType(e) /\ TypesInv /\ t # NoOne
  BY NumbersAreNotOpeners DEF LoadInv, PlaceInv
<1>3. /\ e \in DOMAIN etypes /\ EtypeInv(e) /\ etypes[e] \in EtypeRec
      /\ m \in DOMAIN metatypes /\ e \in TypesOf(m)
  BY <1>1, <1>2, ValidTypeFacts
<1>4. CASE etypes[e].instead # Nothing
  <2>1. /\ thread' = [thread EXCEPT ![t].type = etypes[e].instead]
        /\ metatypes' = [metatypes EXCEPT ![m].holder = t]
        /\ UNCHANGED <<etypes, left>>
    BY <1>4 DEF MakeExtern
  <2>2. ValidType(etypes[e].instead)
    BY <1>3, <1>4 DEF EtypeInv, ValidType
  <2>3. NodesOnly
    BY <2>1, NoNodes
  <2> HIDE DEF e, m
  <2>4. /\ ThreadStep(t) /\ HasNoMore(t) /\ thread'[t].pc = thread[t].pc
        /\ t \in DOMAIN metatypes => LoadGoesOn(t)
    BY <1>1, <2>1, <2>2, PassOn
  <2>5. /\ LockStep
        /\ \A n \in DOMAIN metatypes : metatypes'[n].holder = IF n = m THEN t ELSE metatypes[n].holder
    BY <1>2, <1>3, <2>1, LockFacts
  <2>6. LocksOf(t)
    <3>1. \A n \in DOMAIN metatypes : metatypes[n].holder = t => thread[t].pc \in Makes \cup {"types"}
      BY <1>1
    <3> QED BY <1>1, <2>4, <2>5 DEF LocksOf, Free
  <2> QED BY <1>1, <2>1, <2>3, <2>4, <2>5, <2>6, PlainStep DEF ThreadStep
<1>5. CASE etypes[e].instead = Nothing
  <2>1. Made(t)
    BY <1>5 DEF MakeExtern
  <2>2. /\ ThreadStep(t) /\ HasNoMore(t) /\ LockStep /\ LocksOf(t)
        /\ t \in DOMAIN metatypes => LoadGoesOn(t)
    BY <1>1, <2>1, MadeKeeps
  <2>3. CASE metatypes[m].cleared
    <3>1. left' = left \cup {m} /\ UNCHANGED etypes
      BY <1>5, <2>3 DEF MakeExtern
    <3>2. OutcomeInv(m)
      BY <1>3 DEF LoadInv
    <3>3. Excused(m)
      BY <1>3, <1>5, <2>3, <3>2 DEF OutcomeInv, Over, IsSet
    <3>4. NodesOnly
      BY <3>1, NoNodes
    <3> HIDE DEF e, m
    <3> QED BY <1>1, <1>3, <2>2, <2>3, <3>1, <3>3, <3>4, PlainStep DEF ThreadStep
  <2>4. CASE ~metatypes[m].cleared
    <3>1. /\ etypes' = [etypes EXCEPT ![e].nodes = Append(@, thread[t].scope)]
          /\ UNCHANGED left
      BY <1>5, <2>4 DEF MakeExtern
    <3>2. Append(etypes[e].nodes, thread[t].scope) \in Seq(Threads)
      <4>1. etypes[e].nodes \in Seq(Threads) /\ thread[t].scope \in Threads
        BY <1>2, <1>3 DEF EtypeRec, TypesInv, ThreadRec
      <4> QED BY <4>1, AppendProperties
    <3> DEFINE nodes == Append(etypes[e].nodes, thread[t].scope)
    <3> HIDE DEF e, m, nodes
    <3>3. etypes' = [etypes EXCEPT ![e] = [etypes[e] EXCEPT !.nodes = nodes]]
      BY <3>1 DEF nodes
    <3>4. [etypes[e] EXCEPT !.nodes = nodes] \in EtypeRec
      BY <1>3, <3>2 DEF EtypeRec, nodes
    <3>5. NodesOnly
      <4>1. \A x \in DOMAIN etypes : etypes[x] \in EtypeRec
        BY <1>2 DEF TypesInv
      <4>2. DOMAIN etypes' = DOMAIN etypes
        BY <3>3
      <4>3. \A x \in DOMAIN etypes :
              etypes'[x] = IF x = e THEN [etypes[e] EXCEPT !.nodes = nodes] ELSE etypes[x]
        BY <3>3
      <4>4. /\ [etypes[e] EXCEPT !.nodes = nodes].of = etypes[e].of
            /\ [etypes[e] EXCEPT !.nodes = nodes].fits = etypes[e].fits
            /\ [etypes[e] EXCEPT !.nodes = nodes].instead = etypes[e].instead
        BY <1>3 DEF EtypeRec
      <4> QED BY <3>4, <4>1, <4>2, <4>3, <4>4 DEF NodesOnly
    <3> QED BY <1>1, <2>2, <3>1, <3>5, PlainStep DEF ThreadStep
  <2> QED BY <2>3, <2>4
<1> QED BY <1>4, <1>5

-----------------------------------------------------------------------------
(* Declarations. *)

LEMMA RegistryFacts ==
  ASSUME LoadInv, NEW url \in DOMAIN registry
  PROVE  /\ registry[url].kind = "metatype" => \E m \in DOMAIN metatypes : registry[url] = Metatype(m)
         /\ registry[url].kind = "proto" => registry[url] \in DOMAIN bodies
         /\ registry[url].kind \in {"metatype", "proto"} /\ registry[url] \in Things
         /\ Registered(registry[url])
<1>1. CASE registry[url] \in DOMAIN bodies
  <2>1. BodyInv(registry[url]) /\ registry[url] \in Things
    BY <1>1 DEF LoadInv, TypesInv
  <2>2. registry[url].kind = "proto"
    BY <2>1 DEF BodyInv, Thing
  <2> QED BY <1>1, <2>1, <2>2 DEF Registered, Range
<1>2. CASE \E m \in DOMAIN metatypes : registry[url] = Metatype(m)
  <2>1. PICK m \in DOMAIN metatypes : registry[url] = Metatype(m)
    BY <1>2
  <2>2. m \in Loaders
    BY Typed DEF LoadInv
  <2> QED BY <1>2, <2>1, <2>2, ThingFacts DEF Registered, Range
<1> QED BY <1>1, <1>2 DEF LoadInv, TypesInv

\* The statement at which a parser is.
LEMMA StatementHere ==
  ASSUME LoadInv, NEW t \in Threads, thread[t].pc \in InParse
  PROVE  /\ StatementAt(t) \in Statements /\ StatementAt(t).kind \in {"extern", "node", "proto"}
         /\ thread[t].pc \in PlacesOf(StatementAt(t).kind)
         /\ StatementAt(t) \in Range(web.files[FileOf(Url(t))])
         /\ FileOf(Url(t)) \in DOMAIN web.files /\ thread[t].at \in DOMAIN StatementsOf(t)
         /\ t \in Openers => t \in DOMAIN web.opened
         /\ t \in Loaders => t \in DOMAIN metatypes
         /\ thread[t] \in ThreadRec /\ thread[t].at \in Nat \ {0}
<1>1. PlaceInv(t) /\ TypesInv /\ thread[t] \in ThreadRec /\ web \in Webs
  BY DEF LoadInv, TypesInv
<1>2. /\ FileOf(Url(t)) \in DOMAIN web.files /\ thread[t].at \in DOMAIN StatementsOf(t)
      /\ t \in Openers => t \in DOMAIN web.opened
      /\ t \in Loaders => t \in DOMAIN metatypes
      /\ thread[t].pc \in PlacesOf(StatementAt(t).kind)
  BY <1>1 DEF PlaceInv, Reading, InParse
<1>3. /\ StatementAt(t) \in Statements /\ StatementAt(t).kind \in {"extern", "node", "proto"}
      /\ StatementAt(t) \in Range(web.files[FileOf(Url(t))])
  BY <1>1, <1>2, FileFacts DEF StatementAt, StatementsOf
<1> QED BY <1>1, <1>2, <1>3 DEF ThreadRec

LEMMA ExternHere ==
  ASSUME LoadInv, NEW t \in Threads, thread[t].pc \in {"extern", "id", "url", "type"}
  PROVE  /\ StatementAt(t).kind = "extern" /\ StatementAt(t).name \in Names
         /\ StatementAt(t).fits \in BOOLEAN /\ (StatementAt(t).fits \/ Misfit)
<1>1. thread[t].pc \in InParse
  BY DEF InParse
<1>2. StatementAt(t).kind = "extern"
  BY <1>1, StatementHere DEF PlacesOf
<1>3. StatementAt(t).name \in Names /\ StatementAt(t).fits \in BOOLEAN
  BY <1>1, <1>2, StatementHere, StatementFacts
<1>4. StatementAt(t) \in Declarations
  BY <1>1, <1>2, StatementHere DEF Declarations, Those
<1> QED BY <1>2, <1>3, <1>4 DEF Misfit

LEMMA ProtoHere ==
  ASSUME LoadInv, NEW t \in Threads, thread[t].pc \in {"proto", "finish", "check", "first"}
  PROVE  /\ StatementAt(t).kind = "proto" /\ StatementAt(t).name \in Names
         /\ Path(StatementAt(t)) \in Paths
<1>1. thread[t].pc \in InParse
  BY DEF InParse
<1>2. StatementAt(t).kind = "proto"
  BY <1>1, StatementHere DEF PlacesOf
<1> QED BY <1>1, <1>2, StatementHere, StatementFacts

\* A thread is done with its file, or gives up.
LEMMA FileLeft ==
  ASSUME LoadInv, Grows, NEW t \in Threads, thread[t].pc # "idle",
         thread'[t].pc \in {"clear", "end", "failed"}, t \in Openers => thread'[t].pc # "clear",
         thread'[t].known = thread[t].known, thread'[t].type = thread[t].type
  PROVE  PlaceInv(t)' /\ ReadInv(t)'
<1>1. PlaceInv(t)
  BY DEF LoadInv
<1>2. /\ t \in Openers => t \in DOMAIN web.opened /\ web' = web
      /\ t \in Loaders => t \in DOMAIN metatypes /\ t \in DOMAIN metatypes'
  BY <1>1 DEF PlaceInv, Grows
<1>3. thread'[t].pc \notin {"idle", "fetch", "find", "id", "url", "type", "check", "first"}
                             \cup InParse \cup InSet \cup Reading
  BY DEF InParse, InSet, Reading
<1>4. ValidType(thread[t].type)' /\ \A n \in DOMAIN thread'[t].known : ValidType(thread[t].known[n])'
  <2>1. \A x : x = thread[t].type \/ (\E n \in DOMAIN thread[t].known : x = thread[t].known[n])
                 => ValidType(x)'
    BY KnownStays, <1>1 DEF PlaceInv
  <2> QED BY <2>1
<1>5. PlaceInv(t)'
  BY <1>2, <1>3, <1>4 DEF PlaceInv
<1> QED BY <1>3, <1>5 DEF ReadInv

\* The interfaces do not fit.
LEMMA GiveUpKeeps ==
  ASSUME LoadInv, NEW t \in Threads, thread[t].pc \in {"extern", "type"}, Misfit, GiveUp(t),
         UNCHANGED <<web, registry, metatypes, etypes, bodies, broke, left, overwritten>>
  PROVE  LoadInv' /\ Stays /\ Quiet(t)
<1> DEFINE place == IF t \in Openers THEN "failed" ELSE "clear"
<1>1. Go(t, place) /\ place \in Places /\ TypesInv /\ place \in {"failed", "clear"}
  BY DEF GiveUp, Places, LoadInv
<1>2. t \in Openers => place # "clear" /\ t \notin DOMAIN metatypes
  BY NumbersAreNotOpeners, Typed DEF LoadInv
<1>3. t \notin Openers => place = "clear"
  OBVIOUS
<1> HIDE DEF place
<1>4. /\ thread' \in [Threads -> ThreadRec] /\ Others(t)
      /\ thread'[t].pc = place /\ thread'[t].at = thread[t].at
      /\ thread'[t].known = thread[t].known /\ thread'[t].type = thread[t].type
      /\ thread[t].at \in Nat
  BY <1>1, GoFacts DEF TypesInv, ThreadRec
<1>5. Onward(t) /\ HasNoMore(t)
  BY <1>1, <1>4 DEF Onward, HasNoMore, InSet
<1>6. Grows => PlaceInv(t)' /\ ReadInv(t)'
  BY <1>1, <1>2, <1>4, FileLeft
<1>7. LockStep /\ LocksOf(t)
  BY NoLocks DEF Makes
<1>8. t \in DOMAIN metatypes => LoadEnds(t)
  BY <1>1, <1>2, <1>3, <1>4 DEF LoadEnds, Excused
<1> QED BY <1>4, <1>5, <1>6, <1>7, <1>8, NoNodes, PlainStep

LEMMA FindKnownKeeps ==
  ASSUME LoadInv, NEW t \in Threads, Find(t), StatementAt(t).url \in DOMAIN registry
  PROVE  LoadInv' /\ Stays /\ Quiet(t)
<1> DEFINE s == StatementAt(t)
           x == registry[s.url]
<1>1. /\ thread[t].pc = "extern" /\ thread[t].pc \in InParse
      /\ UNCHANGED <<web, registry, metatypes, etypes, bodies, broke, left, overwritten>>
  BY DEF Find, At, InParse
<1>2. LockStep /\ NodesOnly /\ (thread'[t].pc \notin Setting => LocksOf(t))
  BY <1>1, NoLocks, NoNodes DEF Makes
<1>3. /\ s.kind = "extern" /\ s.name \in Names /\ s.fits \in BOOLEAN /\ (s.fits \/ Misfit)
  BY <1>1, ExternHere
<1>4. /\ x.kind = "metatype" => \E m \in DOMAIN metatypes : x = Metatype(m)
      /\ x.kind = "proto" => x \in DOMAIN bodies
      /\ x.kind \in {"metatype", "proto"} /\ x \in Things /\ Registered(x)
  BY RegistryFacts
<1>5. CASE x.kind = "metatype"
  <2>1. GoWith(t, "type", x)
    BY <1>5 DEF Find, IsProto
  <2> HIDE DEF x
  <2>2. /\ thread' \in [Threads -> ThreadRec] /\ Others(t)
        /\ thread'[t].pc = "type" /\ thread'[t].at = thread[t].at
        /\ thread'[t].known = thread[t].known /\ thread'[t].type = thread[t].type
        /\ thread'[t].subject = x
    <3>1. "type" \in Places /\ TypesInv
      BY DEF Places, InParse, LoadInv
    <3> QED BY <2>1, <3>1, <1>4, GoFacts
  <2>3. Onward(t) /\ HasNoMore(t) /\ LoadGoesOn(t) /\ thread'[t].pc \notin Setting
    <3>1. thread[t].at \in Nat
      BY <1>1, StatementHere
    <3> QED BY <1>1, <2>2, <3>1 DEF Onward, HasNoMore, LoadGoesOn, InSet, Setting, Over
  <2>4. Grows => PlaceInv(t)' /\ ReadInv(t)'
    <3>1. "type" \in InParse /\ "type" \in PlacesOf(s.kind)
      BY <1>3 DEF InParse, PlacesOf
    <3>2. \E m \in DOMAIN metatypes' : thread'[t].subject = Metatype(m)
      BY <1>1, <1>4, <1>5, <2>2
    <3> QED BY <1>1, <2>2, <3>1, <3>2, SameStatement
  <2> QED BY <1>1, <1>2, <2>2, <2>3, <2>4, PlainStep
<1>6. CASE x.kind = "proto" /\ s.fits
  <2>1. Follow(t, Put(thread[t].known, s.name, x))
    BY <1>6 DEF Find, IsProto
  <2>2. /\ Put(thread[t].known, s.name, x) \in Known
        /\ \A z \in DOMAIN Put(thread[t].known, s.name, x) :
             \/ Put(thread[t].known, s.name, x)[z] = x
             \/ z \in DOMAIN thread[t].known
                  /\ Put(thread[t].known, s.name, x)[z] = thread[t].known[z]
    <3>1. thread[t].known \in Known
      BY DEF LoadInv, TypesInv, ThreadRec
    <3> QED BY <1>3, <1>4, <3>1, KnownFacts
  <2> DEFINE known == Put(thread[t].known, s.name, x)
  <2>3. ASSUME Grows, NEW y, \E n \in DOMAIN known : y = known[n] PROVE ValidType(y)'
    <3>1. y = x \/ \E n \in DOMAIN thread[t].known : y = thread[t].known[n]
      BY <2>2, <2>3
    <3>2. ValidType(x) 
      BY <1>4, <1>6 DEF ValidType
    <3> QED BY <2>3, <3>1, <3>2, KnownStays
  <2> HIDE DEF known
  <2>4. known \in Known /\ Follow(t, known)
    BY <2>1, <2>2 DEF known
  <2>5. /\ ThreadStep(t) /\ HasNoMore(t) /\ thread'[t].pc \notin Setting
        /\ t \in DOMAIN metatypes => LoadGoesOn(t)
    BY <1>1, <1>3, <2>3, <2>4, FollowKeeps
  <2> QED BY <1>1, <1>2, <2>5, PlainStep DEF ThreadStep
<1>7. CASE x.kind = "proto" /\ ~s.fits
  <2>1. GiveUp(t) /\ Misfit
    BY <1>3, <1>7 DEF Find, IsProto
  <2> QED BY <1>1, <2>1, GiveUpKeeps
<1> QED BY <1>3, <1>4, <1>5, <1>6, <1>7

\* The load thread of a new metatype starts.
LEMMA FindNewKeeps ==
  ASSUME LoadInv, NEW t \in Threads, Find(t), StatementAt(t).url \notin DOMAIN registry
  PROVE  LoadInv' /\ Stays
<1> DEFINE s == StatementAt(t)
           new == NewMetatype(t, s)
<1>0. PICK m \in Nat : m = Len(metatypes) + 1
  BY Typed DEF LoadInv
<1>1. /\ thread[t].pc = "extern" /\ thread[t].pc \in InParse /\ m <= web.most
      /\ metatypes' = Append(metatypes, new)
      /\ thread' = [thread EXCEPT ![t].pc = "id", ![t].subject = Metatype(m), ![m].pc = "fetch"]
      /\ UNCHANGED <<web, registry, etypes, bodies, broke, left, overwritten>>
  BY <1>0 DEF Find, At, InParse
<1>2. /\ TypesInv /\ DOMAIN metatypes = 1 .. Len(metatypes) /\ Len(metatypes) \in Nat
      /\ metatypes \in Seq(MetatypeRec) /\ web \in Webs /\ left \subseteq DOMAIN metatypes
  BY Typed DEF LoadInv, TypesInv
<1>3. s.kind = "extern" /\ s \in Statements /\ s.kind = "extern" /\ thread[t] \in ThreadRec
  BY <1>1, ExternHere, StatementHere
<1>4. /\ m \in Loaders /\ m \in Threads /\ m \notin DOMAIN metatypes /\ m \notin Openers /\ m # NoOne
  <2>1. MaxMetatypes \in Nat /\ web.most <= MaxMetatypes /\ web.most \in Nat
    BY <1>2, ExternprotoAssumption
  <2>2. m \in Loaders
    BY <1>0, <1>1, <1>2, <2>1 DEF Loaders
  <2> QED BY <1>0, <1>2, <2>2, NumbersAreNotOpeners DEF Threads, NoOne
<1>5. thread[m].pc = "idle" /\ thread[m].at = 1 /\ thread[m] \in ThreadRec /\ t # m
  <2>1. PlaceInv(m)
    BY <1>4 DEF LoadInv
  <2> QED BY <1>1, <1>2, <1>4, <2>1, Typed DEF PlaceInv
<1>6. new \in MetatypeRec
  <2>1. t \in Openers \/ metatypes[t].scene \in Openers
    <3>1. t \in Openers \/ t \in DOMAIN metatypes
      BY <1>1, StatementHere DEF Threads
    <3> QED BY <1>2, <3>1, Typed DEF MetatypeRec
  <2>2. s.wants \in {r.wants : r \in {q \in Statements : q.kind = "extern"}}
    BY <1>3
  <2>3. <<>> \in Seq(Things) /\ Nothing \in Things
    BY EmptySeq, ThingFacts
  <2> HIDE DEF s
  <2> QED BY <2>1, <2>2, <2>3 DEF NewMetatype, MetatypeRec
<1>7. /\ new.proto = Nothing /\ new.cleared = FALSE /\ new.types = <<>> /\ new.holder = NoOne
  BY DEF NewMetatype
<1> HIDE DEF new
<1>8. /\ metatypes' \in Seq(MetatypeRec) /\ Len(metatypes') = m /\ metatypes'[m] = new
      /\ DOMAIN metatypes' = DOMAIN metatypes \cup {m}
      /\ \A n \in DOMAIN metatypes : metatypes'[n] = metatypes[n]
  <2>1. /\ metatypes' \in Seq(MetatypeRec) /\ Len(metatypes') = Len(metatypes) + 1
        /\ \A n \in 1 .. Len(metatypes) : metatypes'[n] = metatypes[n]
        /\ metatypes'[Len(metatypes) + 1] = new
    BY <1>1, <1>2, <1>6, AppendProperties
  <2>2. DOMAIN metatypes' = 1 .. Len(metatypes')
    BY <2>1, LenProperties
  <2> QED BY <1>0, <1>2, <2>1, <2>2
<1> HIDE DEF s
<1>9. /\ thread' \in [Threads -> ThreadRec]
      /\ thread'[t].pc = "id" /\ thread'[t].at = thread[t].at
      /\ thread'[t].known = thread[t].known /\ thread'[t].type = thread[t].type
      /\ thread'[t].subject = Metatype(m)
      /\ thread'[m].pc = "fetch" /\ thread'[m].at = 1
      /\ thread'[m].known = thread[m].known /\ thread'[m].type = thread[m].type
      /\ \A u \in Threads \ {t, m} : thread'[u] = thread[u]
  <2>1. thread' = [thread EXCEPT ![t] = [thread[t] EXCEPT !.pc = "id", !.subject = Metatype(m)],
                                 ![m] = [thread[m] EXCEPT !.pc = "fetch"]]
    BY <1>1, <1>4, <1>5 DEF LoadInv, TypesInv
  <2>2. "id" \in Places /\ "fetch" \in Places /\ Metatype(m) \in Things
    BY <1>4, ThingFacts DEF Places, InParse
  <2>3. [thread[t] EXCEPT !.pc = "id", !.subject = Metatype(m)] \in ThreadRec
    BY <1>3, <2>2 DEF ThreadRec
  <2>4. [thread[m] EXCEPT !.pc = "fetch"] \in ThreadRec
    BY <1>5, <2>2 DEF ThreadRec
  <2>5. thread' \in [Threads -> ThreadRec]
    BY <1>4, <2>1, <2>3, <2>4, <1>2 DEF TypesInv
  <2>6. /\ thread'[t] = [thread[t] EXCEPT !.pc = "id", !.subject = Metatype(m)]
        /\ thread'[m] = [thread[m] EXCEPT !.pc = "fetch"]
        /\ \A u \in Threads \ {t, m} : thread'[u] = thread[u]
    BY <1>4, <1>5, <2>1, <1>2 DEF TypesInv
  <2> QED BY <1>3, <1>5, <2>5, <2>6 DEF ThreadRec
<1>10. Grows /\ BodiesStay /\ overwritten \subseteq overwritten'
  BY <1>1, <1>8 DEF Grows, BodiesStay, Kept, IsProto
<1>11. TypesInv'
  <2>1. Len(metatypes') <= web.most
    BY <1>1, <1>8
  <2>2. \A u \in DOMAIN registry :
          registry[u] \in DOMAIN bodies \/ \E n \in DOMAIN metatypes' : registry[u] = Metatype(n)
    BY <1>2, <1>8 DEF TypesInv
  <2> QED BY <1>1, <1>2, <1>8, <1>9, <2>1, <2>2 DEF TypesInv, Metatype
<1>12. DeadStays
  <2>1. \A p : Registered(p)' <=> Registered(p)
    BY <1>1 DEF Registered
  <2>2. ASSUME NEW p, NEW u \in Threads, Holds(u, p, InSet \cup {"check", "first"})'
        PROVE  ProtoLives(p)
    <3>1. u \notin {t, m}
      BY <1>9, <2>2 DEF Holds, InSet
    <3> QED BY <1>9, <2>2, <3>1 DEF Holds, ProtoLives
  <2> QED BY <2>1, <2>2 DEF DeadStays, ProtoLives
<1>13. AllOnward
  <2>1. \A u \in Threads : thread[u].at \in Nat /\ thread'[u].at \in Nat
    BY <1>2, <1>9 DEF TypesInv, ThreadRec
  <2>2. Onward(t)
    BY <1>1, <1>9, <2>1 DEF Onward
  <2>3. Onward(m)
    BY <1>5, <1>9 DEF Onward
  <2>4. \A u \in Threads \ {t, m} : Onward(u)
    BY <1>9, <2>1 DEF Onward
  <2> QED BY <2>1, <2>2, <2>3, <2>4 DEF AllOnward
<1>14. ASSUME NEW u \in Threads PROVE PlaceInv(u)' /\ ReadInv(u)'
  <2>1. CASE u = t
    <3>1. "id" \in InParse /\ "id" \in PlacesOf(StatementAt(t).kind)
      BY <1>3 DEF InParse, PlacesOf, s
    <3>2. \E n \in DOMAIN metatypes' : thread'[t].subject = Metatype(n)
      BY <1>8, <1>9
    <3>3. thread'[t].pc \notin {"check", "first"}
      BY <1>9
    <3>4. PlaceInv(t)' /\ ReadInv(t)'
      BY <1>1, <1>9, <1>10, <3>1, <3>2, <3>3, SameStatement
    <3> QED BY <2>1, <3>4
  <2>2. CASE u = m
    <3>1. ValidType(thread[m].type)' /\ \A n \in DOMAIN thread'[m].known : ValidType(thread[m].known[n])'
      <4>1. PlaceInv(m)
        BY <1>4 DEF LoadInv
      <4>2. \A x : x = thread[m].type \/ (\E n \in DOMAIN thread[m].known : x = thread[m].known[n])
                     => ValidType(x)'
        BY <1>4, <1>10, <4>1, KnownStays DEF PlaceInv
      <4> QED BY <1>9, <4>2
    <3>2. "fetch" \notin Reading \cup InParse \cup InSet
      BY DEF Reading, InParse, InSet
    <3> QED BY <1>4, <1>8, <1>9, <2>2, <3>1, <3>2 DEF PlaceInv, ReadInv
  <2>3. CASE u \notin {t, m}
    <3>1. PlaceInv(u) /\ ReadInv(u) /\ thread'[u] = thread[u]
      BY <1>9, <2>3 DEF LoadInv
    <3> QED BY <1>8, <1>10, <2>3, <3>1, OtherThread
  <2> QED BY <2>1, <2>2, <2>3
<1>15. TypesStep
  <2>1. \A e \in DOMAIN etypes : EtypeInv(e) /\ metatypes'[etypes[e].of] = metatypes[etypes[e].of]
    BY <1>8 DEF LoadInv, EtypeInv
  <2> QED BY <1>1, <2>1 DEF TypesStep, EtypeInv
<1>16. LoadsStep
  <2>1. ASSUME NEW n \in DOMAIN metatypes PROVE LoadGoesOn(n) /\ LoadStays(n)
    <3>1. SetInv(n) /\ n # m /\ n \in Threads /\ metatypes[n].holder \in Threads \cup {NoOne}
      BY <1>4, <1>2, Typed DEF LoadInv, MetatypeRec
    <3>2. LoadGoesOn(n)
      BY <1>1, <1>9, <3>1 DEF LoadGoesOn, Setting, Over
    <3>3. metatypes[n].holder \notin {t, m}
      BY <1>1, <1>4, <1>5, <3>1, NumbersAreNotOpeners DEF SetInv, Makes
    <3>4. metatypes'[n].holder # NoOne => thread'[metatypes'[n].holder].pc \in Makes \cup {"types"}
      BY <1>8, <1>9, <3>1, <3>3 DEF SetInv
    <3>5. thread'[n].pc \in Setting => metatypes'[n].holder = n
      BY <1>8, <1>9, <3>1 DEF SetInv, Setting
    <3> QED BY <1>1, <1>8, <3>2, <3>4, <3>5 DEF LoadStays, TypesOf, IsSet
  <2>2. SetInv(m)'
    BY <1>7, <1>8, <1>9 DEF SetInv, Setting
  <2>3. OutcomeInv(m)'
    <3>1. DOMAIN <<>> = {}
      BY EmptySeq
    <3> QED BY <1>1, <1>2, <1>4, <1>7, <1>8, <1>9, <3>1 DEF OutcomeInv, Setting, Over
  <2> QED BY <1>8, <2>1, <2>2, <2>3 DEF LoadsStep
<1> QED BY <1>10, <1>11, <1>12, <1>13, <1>14, <1>15, <1>16, StepKeeps

-----------------------------------------------------------------------------
(* What parsers register. *)

\* A parser changes the registry, and may add a PROTO.
LEMMA PublishStep ==
  ASSUME LoadInv, NEW t \in Threads, thread[t].pc \in InParse \ Makes,
         thread' \in [Threads -> ThreadRec], Others(t), Onward(t), thread'[t].pc \notin Setting,
         UNCHANGED <<web, metatypes, etypes, broke, left>>,
         t \in DOMAIN metatypes => LoadGoesOn(t),
         Grows, BodiesStay, DeadStays, overwritten \subseteq overwritten',
         PlaceInv(t)' /\ ReadInv(t)', DOMAIN bodies' \subseteq Things,
         \A p \in DOMAIN bodies' \ DOMAIN bodies : BodyInv(p)',
         \A u \in DOMAIN registry' :
           registry'[u] \in DOMAIN bodies' \/ \E m \in DOMAIN metatypes : registry'[u] = Metatype(m)
  PROVE  LoadInv' /\ Stays
<1>1. TypesInv'
  <2>1. \A u \in DOMAIN registry' : \/ registry'[u] \in DOMAIN bodies'
                                   \/ \E m \in DOMAIN metatypes' : registry'[u] = Metatype(m)'
    BY DEF Metatype
  <2> QED BY <2>1 DEF LoadInv, TypesInv
<1>2. AllOnward /\ \A u \in Threads : PlaceInv(u)' /\ ReadInv(u)'
  BY <1>1, OthersKept
<1>3. TypesStep
  <2>1. \A e \in DOMAIN etypes : EtypeInv(e)
    BY DEF LoadInv
  <2> QED BY <2>1 DEF TypesStep, EtypeInv
<1>4. LoadsStep
  <2>1. LocksOf(t)
    BY NoLocks DEF InParse, Makes
  <2>2. ASSUME NEW m \in DOMAIN metatypes PROVE LoadGoesOn(m) /\ LoadStays(m)
    <3>1. m \in Threads
      BY Typed DEF LoadInv
    <3>2. LoadGoesOn(m)
      BY <3>1 DEF LoadGoesOn, Others
    <3>3. /\ metatypes'[m].holder # NoOne => thread'[metatypes'[m].holder].pc \in Makes \cup {"types"}
          /\ thread'[m].pc \in Setting => metatypes'[m].holder = m
      BY <2>1, LocksKept
    <3> QED BY <3>2, <3>3 DEF LoadStays, TypesOf, IsSet
  <2> QED BY <2>2 DEF LoadsStep
<1> QED BY <1>1, <1>2, <1>3, <1>4, StepKeeps

\* What is registered was registered before, or is what the step registers.
LEMMA RegisterFacts ==
  ASSUME NEW url, NEW x, Register(url, x)
  PROVE  /\ DOMAIN registry' = DOMAIN registry \cup {url} /\ registry'[url] = x
         /\ \A u \in DOMAIN registry : u # url => registry'[u] = registry[u]
         /\ \A p : Registered(p)' => Registered(p) \/ p = x
         /\ \A u : u # url => (IsProto(u)' <=> IsProto(u))
         /\ x.kind = "proto" => \A u : IsProto(u) \/ u = url => IsProto(u)'
<1>1. /\ DOMAIN registry' = DOMAIN registry \cup {url} /\ registry'[url] = x
      /\ \A u \in DOMAIN registry : u # url => registry'[u] = registry[u]
  BY DEF Register, Put
<1>2. \A p : Registered(p)' => Registered(p) \/ p = x
  BY <1>1 DEF Registered, Range
<1>3. \A u : u # url => (IsProto(u)' <=> IsProto(u))
  BY <1>1 DEF IsProto
<1>4. x.kind = "proto" => \A u : IsProto(u) \/ u = url => IsProto(u)'
  BY <1>1 DEF IsProto
<1> QED BY <1>1, <1>2, <1>3, <1>4

\* A PROTO that t registers is one that it has at hand.
LEMMA DeadOnes ==
  ASSUME LoadInv, NEW t \in Threads, Others(t), NEW x,
         \A p : Registered(p)' => Registered(p) \/ p = x,
         x \in DOMAIN bodies => ProtoLives(x),
         thread'[t].pc \in InSet \cup {"check", "first"} =>
           (thread'[t].subject \in DOMAIN bodies => ProtoLives(thread'[t].subject))
  PROVE  DeadStays
<1>1. ASSUME NEW p \in DOMAIN bodies, NEW u \in Threads, Holds(u, p, InSet \cup {"check", "first"})'
      PROVE  ProtoLives(p)
  <2>1. CASE u = t
    BY <1>1, <2>1 DEF Holds
  <2>2. CASE u # t
    BY <1>1, <2>2 DEF Holds, Others, ProtoLives
  <2> QED BY <2>1, <2>2
<1>2. ASSUME NEW p \in DOMAIN bodies, Registered(p)' PROVE ProtoLives(p)
  BY <1>2 DEF ProtoLives
<1> QED BY <1>1, <1>2 DEF DeadStays, ProtoLives

\* A metatype is registered.
LEMMA RegisterKeeps ==
  ASSUME LoadInv, NEW t \in Threads, thread[t].pc \in {"id", "url"}, NEW place \in {"url", "type"},
         Go(t, place), NEW url, RegisterOver(url, thread[t].subject),
         UNCHANGED <<web, metatypes, etypes, bodies, broke, left>>
  PROVE  LoadInv' /\ Stays
<1> DEFINE x == thread[t].subject
<1>1. /\ Register(url, x) /\ overwritten' = overwritten \cup (IF IsProto(url) THEN {url} ELSE {})
  BY DEF RegisterOver
<1>2. thread[t].pc \in InParse \ Makes /\ place \in Places /\ place \in InParse /\ TypesInv
  BY DEF InParse, Makes, Places, LoadInv
<1>3. PICK m \in DOMAIN metatypes : x = Metatype(m)
  BY DEF LoadInv, PlaceInv
<1>4. x.kind = "metatype"
  BY <1>3 DEF Metatype, Thing
<1>5. /\ thread' \in [Threads -> ThreadRec] /\ Others(t)
      /\ thread'[t].pc = place /\ thread'[t].at = thread[t].at
      /\ thread'[t].known = thread[t].known /\ thread'[t].type = thread[t].type
      /\ thread'[t].subject = x
  BY <1>2, GoFacts
<1> HIDE DEF x
<1>6. /\ DOMAIN registry' = DOMAIN registry \cup {url} /\ registry'[url] = x
      /\ \A u \in DOMAIN registry : u # url => registry'[u] = registry[u]
      /\ \A p : Registered(p)' => Registered(p) \/ p = x
      /\ \A u : u # url => (IsProto(u)' <=> IsProto(u))
  BY <1>1, RegisterFacts
<1>7. Grows
  <2>1. \A u : Kept(u) => Kept(u)'
    BY <1>1, <1>6 DEF Kept
  <2> QED BY <2>1 DEF Grows
<1>8. DeadStays
  <2>1. x \notin DOMAIN bodies
    BY <1>4 DEF LoadInv, BodyInv, Thing
  <2>2. thread'[t].pc \notin InSet \cup {"check", "first"}
    BY <1>5 DEF InSet
  <2> QED BY <1>5, <1>6, <2>1, <2>2, DeadOnes
<1>9. Onward(t) /\ LoadGoesOn(t) /\ thread'[t].pc \notin Setting
  <2>1. thread[t].at \in Nat
    BY <1>2, StatementHere
  <2> QED BY <1>5, <2>1 DEF Onward, LoadGoesOn, Setting, Over
<1>10. PlaceInv(t)' /\ ReadInv(t)'
  <2>1. place \in PlacesOf(StatementAt(t).kind)
    BY ExternHere DEF PlacesOf
  <2>2. thread'[t].pc \notin {"check", "first"}
    BY <1>5
  <2>3. \E n \in DOMAIN metatypes' : thread'[t].subject = Metatype(n)
    BY <1>3, <1>5
  <2> QED BY <1>2, <1>5, <1>7, <2>1, <2>2, <2>3, SameStatement
<1>11. \A u \in DOMAIN registry' :
         registry'[u] \in DOMAIN bodies' \/ \E n \in DOMAIN metatypes : registry'[u] = Metatype(n)
  BY <1>3, <1>6 DEF LoadInv, TypesInv
<1>12. /\ BodiesStay /\ overwritten \subseteq overwritten' /\ DOMAIN bodies' \subseteq Things
       /\ \A p \in DOMAIN bodies' \ DOMAIN bodies : BodyInv(p)'
  BY <1>1, <1>2 DEF BodiesStay, TypesInv
<1> QED BY <1>2, <1>5, <1>7, <1>8, <1>9, <1>10, <1>11, <1>12, PublishStep

LEMMA RegisterIdKeeps ==
  ASSUME LoadInv, NEW t \in Threads, RegisterId(t)
  PROVE  LoadInv' /\ Stays
  BY RegisterKeeps DEF RegisterId, At

LEMMA RegisterUrlKeeps ==
  ASSUME LoadInv, NEW t \in Threads, RegisterUrl(t)
  PROVE  LoadInv' /\ Stays
  BY RegisterKeeps DEF RegisterUrl, At

LEMMA FinishProtoKeeps ==
  ASSUME LoadInv, NEW t \in Threads, FinishProto(t)
  PROVE  LoadInv' /\ Stays
<1> DEFINE s == StatementAt(t)
           p == Thing("proto", t, Path(s))
           url == Url(t) \o Path(s)
           b == TypeIn(thread[t].known, s.body)
<1>1. /\ thread[t].pc = "finish" /\ Register(url, p) /\ bodies' = Put(bodies, p, b)
      /\ GoWith(t, "check", p)
      /\ UNCHANGED <<web, metatypes, etypes, broke, left, overwritten>>
  BY DEF FinishProto, At
<1>2. /\ thread[t].pc \in InParse \ Makes /\ "check" \in Places /\ "check" \in InParse /\ TypesInv
      /\ web \in Webs
  BY <1>1 DEF InParse, Makes, Places, LoadInv, TypesInv
<1>3. s.kind = "proto" /\ Path(s) \in Paths /\ p \in Things /\ p.kind = "proto" /\ p.by = t
  BY <1>1, ProtoHere, ThingFacts
<1>4. /\ FileOf(Url(t)) \in DOMAIN web.files /\ thread[t].at \in DOMAIN StatementsOf(t)
      /\ thread[t] \in ThreadRec /\ thread[t].at \in Nat \ {0}
      /\ t \in Openers \/ t \in DOMAIN metatypes
  BY <1>2, StatementHere DEF Threads
<1>5. p \notin DOMAIN bodies
  <2>1. ASSUME p \in DOMAIN bodies PROVE FALSE
    <3>1. BodyInv(p)
      BY <2>1 DEF LoadInv
    <3>2. PICK i \in DOMAIN StatementsOf(t) :
            /\ Finished(t, i) /\ StatementsOf(t)[i].kind = "proto"
            /\ p = Thing("proto", t, Path(StatementsOf(t)[i]))
      BY <3>1, <1>3 DEF BodyInv
    <3>3. Path(StatementsOf(t)[i]) = Path(s)
      BY <3>2 DEF Thing
    <3>4. i = thread[t].at
      BY <1>2, <1>3, <1>4, <3>2, <3>3, NamesAreUnique DEF StatementsOf, StatementAt
    <3> QED BY <1>1, <1>4, <3>2, <3>4 DEF Finished
  <2> QED BY <2>1
<1>6. /\ thread' \in [Threads -> ThreadRec] /\ Others(t)
      /\ thread'[t].pc = "check" /\ thread'[t].at = thread[t].at
      /\ thread'[t].known = thread[t].known /\ thread'[t].type = thread[t].type
      /\ thread'[t].subject = p
  <2> HIDE DEF p
  <2> QED BY <1>1, <1>2, <1>3, GoFacts
<1>7. ValidType(b)
  <2>1. b = Nothing \/ \E n \in DOMAIN thread[t].known : b = thread[t].known[n]
    BY <1>4, KnownFacts DEF ThreadRec
  <2>2. \A n \in DOMAIN thread[t].known : ValidType(thread[t].known[n])
    BY DEF LoadInv, PlaceInv
  <2> QED BY <2>1, <2>2 DEF ValidType
<1>8. PICK q, v, c, path : q = p /\ v = url /\ c = b /\ path = Path(s)
  OBVIOUS
<1>9. /\ DOMAIN bodies' = DOMAIN bodies \cup {q} /\ bodies'[q] = c
      /\ \A z \in DOMAIN bodies : bodies'[z] = bodies[z]
  BY <1>1, <1>5, <1>8 DEF Put
<1>10. /\ DOMAIN registry' = DOMAIN registry \cup {v} /\ registry'[v] = q
       /\ \A u \in DOMAIN registry : u # v => registry'[u] = registry[u]
       /\ \A x : Registered(x)' => Registered(x) \/ x = q
       /\ \A u : IsProto(u) \/ u = v => IsProto(u)'
  BY <1>1, <1>3, <1>8, RegisterFacts
<1>11. Grows /\ BodiesStay
  BY <1>1, <1>9, <1>10 DEF Grows, BodiesStay, Kept
<1>12. DeadStays
  BY <1>5, <1>6, <1>8, <1>10, DeadOnes
<1>13. Onward(t) /\ LoadGoesOn(t) /\ thread'[t].pc \notin Setting
  BY <1>1, <1>4, <1>6 DEF Onward, LoadGoesOn, Setting, Over
<1>14. Url(t)' = Url(t) /\ StatementsOf(t)' = StatementsOf(t)
  BY <1>4, <1>11, UrlsStay
<1>15. PlaceInv(t)' /\ ReadInv(t)'
  <2>1. "check" \in PlacesOf(StatementAt(t).kind)
    BY <1>3 DEF PlacesOf
  <2>2. thread'[t].subject = Thing("proto", t, Path(StatementAt(t))) /\ thread'[t].subject \in DOMAIN bodies'
    BY <1>6, <1>8, <1>9
  <2>3. ASSUME NEW r, r = StatementAt(t) PROVE Kept(Url(t) \o Path(r))'
    <3>1. v = Url(t) \o Path(r)
      BY <1>8, <2>3
    <3>2. (Url(t) \o Path(r))' = v
      BY <1>14, <3>1
    <3>3. IsProto(v)'
      BY <1>10
    <3> QED BY <3>2, <3>3 DEF Kept
  <2>4. thread'[t].pc \notin {"id", "url", "type"}
    BY <1>6
  <2> QED BY <1>2, <1>6, <1>11, <2>1, <2>2, <2>3, <2>4, SameStatement
<1>16. BodyInv(q)'
  <2>1. Opens(t)'
    BY <1>1, <1>4, <1>6, <1>14 DEF Opens, FileOf
  <2>2. ValidType(c)'
    BY <1>7, <1>8, <1>11 DEF ValidType, Grows
  <2>3. Finished(t, thread[t].at)'
    BY <1>6 DEF Finished
  <2>4. /\ StatementsOf(t)[thread[t].at].kind = "proto"
        /\ q = Thing("proto", t, Path(StatementsOf(t)[thread[t].at]))
    BY <1>3, <1>8 DEF StatementAt
  <2>5. q.by = t
    BY <1>3, <1>8
  <2>6. \E i \in DOMAIN StatementsOf(t)' :
          /\ Finished(t, i)' /\ StatementsOf(t)'[i].kind = "proto"
          /\ q = Thing("proto", t, Path(StatementsOf(t)'[i]))
    BY <1>4, <1>14, <2>3, <2>4, <1>6 DEF Finished
  <2> QED BY <1>9, <2>1, <2>2, <2>5, <2>6 DEF BodyInv
<1>17. \A u \in DOMAIN registry' :
         registry'[u] \in DOMAIN bodies' \/ \E n \in DOMAIN metatypes : registry'[u] = Metatype(n)
  BY <1>9, <1>10, <1>2 DEF TypesInv
<1>18. /\ overwritten \subseteq overwritten' /\ DOMAIN bodies' \subseteq Things
       /\ \A x \in DOMAIN bodies' \ DOMAIN bodies : BodyInv(x)'
  BY <1>1, <1>2, <1>3, <1>8, <1>9, <1>16 DEF TypesInv
<1> QED BY <1>1, <1>2, <1>6, <1>11, <1>12, <1>13, <1>15, <1>17, <1>18, PublishStep

\* The PROTO is in the scope.
LEMMA KnowKeeps ==
  ASSUME LoadInv, NEW t \in Threads, thread[t].pc \in {"check", "first"}, KnowProto(t),
         Grows => \A u : u = Url(t) => Kept(u)'
  PROVE  /\ ThreadStep(t) /\ HasNoMore(t)
         /\ t \in DOMAIN metatypes => LoadGoesOn(t)
         /\ thread'[t].pc \notin Setting /\ thread'[t].subject = Nothing
<1> DEFINE s == StatementAt(t)
           x == thread[t].subject
           known == Put(thread[t].known, s.name, x)
<1>1. thread[t].pc \in InParse /\ Follow(t, known)
  BY DEF KnowProto, InParse
<1>2. /\ s.kind = "proto" /\ s.name \in Names /\ x \in DOMAIN bodies /\ x \in Things
      /\ thread[t] \in ThreadRec /\ PlaceInv(t) /\ ReadInv(t)
  BY ProtoHere DEF LoadInv, TypesInv, PlaceInv
<1>3. /\ known \in Known
      /\ \A z \in DOMAIN known : known[z] = x \/ (z \in DOMAIN thread[t].known /\ known[z] = thread[t].known[z])
  BY <1>2, KnownFacts DEF ThreadRec
<1> HIDE DEF known
<1>4. ASSUME Grows, NEW y, \E n \in DOMAIN known : y = known[n] PROVE ValidType(y)'
  <2>1. y = x \/ \E n \in DOMAIN thread[t].known : y = thread[t].known[n]
    BY <1>3, <1>4
  <2>2. ValidType(x)
    BY <1>2 DEF ValidType
  <2> QED BY <1>4, <2>1, <2>2, KnownStays
<1>5. ASSUME Grows, NEW r, r = StatementAt(t) PROVE Kept(Url(t) \o Path(r))' /\ Kept(Url(t))'
  <2>1. thread[t].at \in DOMAIN StatementsOf(t) /\ (t \in Openers \/ t \in DOMAIN metatypes)
    BY <1>1, StatementHere DEF Threads
  <2>2. Url(t)' = Url(t)
    BY <1>5, <2>1, UrlsStay
  <2>3. Kept(Url(t) \o Path(r))
    BY <1>1, <1>2, <1>5, <2>1 DEF ReadInv, Finished, StatementAt
  <2>4. \A u : u = Url(t) \/ u = Url(t) \o Path(r) => Kept(u)'
    BY <1>5, <2>3 DEF Grows
  <2> QED BY <2>2, <2>4
<1> QED BY <1>1, <1>3, <1>4, <1>5, FollowKeeps

LEMMA CheckFirstKeeps ==
  ASSUME LoadInv, NEW t \in Threads, CheckFirst(t)
  PROVE  LoadInv' /\ Stays /\ Quiet(t)
<1>1. /\ thread[t].pc = "check" /\ thread[t].pc \in InParse /\ thread[t].pc \notin Makes \cup {"types"}
      /\ UNCHANGED <<web, registry, metatypes, etypes, bodies, broke, left, overwritten>>
  BY DEF CheckFirst, At, InParse, Makes
<1>2. LockStep /\ LocksOf(t) /\ NodesOnly
  BY <1>1, NoLocks, NoNodes
<1>3. CASE IsProto(Url(t))
  <2>1. KnowProto(t)
    BY <1>3 DEF CheckFirst
  <2>2. \A u : u = Url(t) => Kept(u)'
    BY <1>1, <1>3 DEF Kept, IsProto
  <2>3. ThreadStep(t) /\ HasNoMore(t) /\ (t \in DOMAIN metatypes => LoadGoesOn(t))
    BY <1>1, <2>1, <2>2, KnowKeeps
  <2> QED BY <1>1, <1>2, <2>3, PlainStep DEF ThreadStep
<1>4. CASE ~IsProto(Url(t))
  <2>1. Go(t, "first") /\ "first" \in Places /\ "first" \in InParse /\ TypesInv
    BY <1>4 DEF CheckFirst, Places, InParse, LoadInv
  <2>2. /\ thread' \in [Threads -> ThreadRec] /\ Others(t)
        /\ thread'[t].pc = "first" /\ thread'[t].at = thread[t].at
        /\ thread'[t].known = thread[t].known /\ thread'[t].type = thread[t].type
        /\ thread'[t].subject = thread[t].subject
    BY <2>1, GoFacts
  <2>3. Onward(t) /\ HasNoMore(t) /\ LoadGoesOn(t)
    <3>1. thread[t].at \in Nat
      BY <1>1, StatementHere
    <3> QED BY <1>1, <2>2, <3>1 DEF Onward, HasNoMore, LoadGoesOn, Setting, Over
  <2>4. ASSUME Grows PROVE PlaceInv(t)' /\ ReadInv(t)'
    <3>1. "first" \in PlacesOf(StatementAt(t).kind)
      BY <1>1, ProtoHere DEF PlacesOf
    <3>2. /\ thread'[t].subject = Thing("proto", t, Path(StatementAt(t)))
          /\ thread'[t].subject \in DOMAIN bodies'
      BY <1>1, <2>2 DEF LoadInv, PlaceInv
    <3>3. ASSUME NEW r, r = StatementAt(t) PROVE Kept(Url(t) \o Path(r))'
      <4>1. thread[t].at \in DOMAIN StatementsOf(t) /\ (t \in Openers \/ t \in DOMAIN metatypes)
        BY <1>1, StatementHere DEF Threads
      <4>2. Url(t)' = Url(t)
        BY <2>4, <4>1, UrlsStay
      <4>3. Kept(Url(t) \o Path(r))
        BY <1>1, <3>3, <4>1, ProtoHere DEF LoadInv, ReadInv, Finished, StatementAt
      <4>4. \A u : u = Url(t) \o Path(r) => Kept(u)'
        BY <2>4, <4>3 DEF Grows
      <4> QED BY <4>2, <4>4
    <3>4. thread'[t].pc \notin {"id", "url", "type"}
      BY <2>2
    <3> QED BY <1>1, <2>1, <2>2, <2>4, <3>1, <3>2, <3>3, <3>4, SameStatement
  <2> QED BY <1>1, <1>2, <2>2, <2>3, <2>4, PlainStep
<1> QED BY <1>3, <1>4

LEMMA RegisterFirstKeeps ==
  ASSUME LoadInv, NEW t \in Threads, RegisterFirst(t)
  PROVE  LoadInv' /\ Stays
<1>1. /\ thread[t].pc = "first" /\ thread[t].pc \in InParse \ Makes /\ TypesInv
      /\ Register(Url(t), thread[t].subject) /\ KnowProto(t)
      /\ UNCHANGED <<web, metatypes, etypes, bodies, broke, left, overwritten>>
  BY DEF RegisterFirst, At, InParse, Makes, LoadInv
<1>2. PICK v, x : v = Url(t) /\ x = thread[t].subject
  OBVIOUS
<1>3. x \in DOMAIN bodies /\ x.kind = "proto"
  <2>1. x \in DOMAIN bodies
    BY <1>1, <1>2 DEF LoadInv, PlaceInv
  <2>2. BodyInv(x)
    BY <2>1 DEF LoadInv
  <2> QED BY <2>1, <2>2 DEF BodyInv, Thing
<1>4. /\ DOMAIN registry' = DOMAIN registry \cup {v} /\ registry'[v] = x
      /\ \A u \in DOMAIN registry : u # v => registry'[u] = registry[u]
      /\ \A p : Registered(p)' => Registered(p) \/ p = x
      /\ \A u : IsProto(u) \/ u = v => IsProto(u)'
  BY <1>1, <1>2, <1>3, RegisterFacts
<1>5. Grows /\ BodiesStay
  BY <1>1, <1>4 DEF Grows, BodiesStay, Kept
<1>6. /\ ThreadStep(t) /\ HasNoMore(t) /\ (t \in DOMAIN metatypes => LoadGoesOn(t))
      /\ thread'[t].pc \notin Setting /\ thread'[t].subject = Nothing
  <2>1. \A u : u = Url(t) => Kept(u)'
    BY <1>2, <1>4 DEF Kept
  <2> QED BY <1>1, <2>1, KnowKeeps
<1>7. DeadStays
  <2>1. ProtoLives(x)
    BY <1>1, <1>2 DEF ProtoLives, Holds
  <2>2. Nothing \notin DOMAIN bodies
    BY DEF LoadInv, BodyInv, Thing, Nothing
  <2> QED BY <1>4, <1>6, <2>1, <2>2, DeadOnes DEF ThreadStep
<1>8. /\ \A u \in DOMAIN registry' :
           registry'[u] \in DOMAIN bodies' \/ \E n \in DOMAIN metatypes : registry'[u] = Metatype(n)
      /\ DOMAIN bodies' \subseteq Things /\ overwritten \subseteq overwritten'
      /\ \A p \in DOMAIN bodies' \ DOMAIN bodies : BodyInv(p)'
  BY <1>1, <1>3, <1>4 DEF TypesInv
<1> QED BY <1>1, <1>5, <1>6, <1>7, <1>8, PublishStep DEF ThreadStep

-----------------------------------------------------------------------------
(* Types of EXTERNPROTOs. *)

\* The metatype that a declaration has at hand, and what its scope gets to know.
LEMMA TypeHere ==
  ASSUME LoadInv, NEW t \in Threads, thread[t].pc = "type", NEW x \in Things,
         Follow(t, Put(thread[t].known, StatementAt(t).name, x)), Grows => ValidType(x)'
  PROVE  /\ ThreadStep(t) /\ HasNoMore(t)
         /\ t \in DOMAIN metatypes => LoadGoesOn(t) /\ thread'[t].pc \notin Over
         /\ thread'[t].pc \notin Setting /\ thread'[t].subject = Nothing
         /\ thread'[t].at = thread[t].at + 1
<1> DEFINE known == Put(thread[t].known, StatementAt(t).name, x)
<1>1. /\ thread[t].pc \in InParse /\ StatementAt(t).kind = "extern" /\ StatementAt(t).name \in Names
      /\ thread[t] \in ThreadRec
  BY ExternHere DEF InParse, LoadInv, TypesInv
<1>2. /\ known \in Known /\ Follow(t, known)
      /\ \A z \in DOMAIN known : known[z] = x \/ (z \in DOMAIN thread[t].known /\ known[z] = thread[t].known[z])
  BY <1>1, KnownFacts DEF ThreadRec
<1> HIDE DEF known
<1>3. ASSUME Grows, NEW y, \E n \in DOMAIN known : y = known[n] PROVE ValidType(y)'
  <2>1. y = x \/ \E n \in DOMAIN thread[t].known : y = thread[t].known[n]
    BY <1>2, <1>3
  <2> QED BY <1>3, <2>1, KnownStays
<1> QED BY <1>1, <1>2, <1>3, FollowKeeps

\* The metatype has no PROTO yet, or no more.
LEMMA NewTypeKeeps ==
  ASSUME LoadInv, NEW t \in Threads, NewType(t), ~ProtoLives(metatypes[thread[t].subject.by].proto)
  PROVE  LoadInv' /\ Stays
<1> DEFINE s == StatementAt(t)
<1>1. /\ thread[t].pc = "type" /\ thread[t].pc \in InParse /\ TypesInv /\ web \in Webs
      /\ UNCHANGED <<web, registry, bodies, broke, left, overwritten>>
  BY DEF NewType, At, InParse, LoadInv, TypesInv
<1>2. PICK m \in DOMAIN metatypes : thread[t].subject = Metatype(m)
  BY <1>1 DEF LoadInv, PlaceInv
<1>3. /\ m \in Loaders /\ m \in Threads /\ m # NoOne /\ metatypes[m] \in MetatypeRec
      /\ thread[t].subject.by = m
  BY <1>1, <1>2, Typed, ThingFacts
<1>4. PICK e : e = Thing("extern", t, <<s.name>>)
  OBVIOUS
<1>5. PICK new : new = [of |-> m, fits |-> s.fits, instead |-> Nothing, nodes |-> <<>>]
  OBVIOUS
<1>6. /\ Free(m) /\ ~ProtoLives(metatypes[m].proto)
      /\ etypes' = Put(etypes, e, new)
      /\ metatypes' = [metatypes EXCEPT ![m].types = Append(@, e)]
      /\ Follow(t, Put(thread[t].known, s.name, e))
  BY <1>3, <1>4, <1>5 DEF NewType
<1>7. /\ s.kind = "extern" /\ s.name \in Names /\ s.fits \in BOOLEAN /\ (s.fits \/ Misfit)
      /\ e \in Things /\ e.by = t /\ thread[t] \in ThreadRec /\ thread[t].at \in Nat \ {0}
      /\ FileOf(Url(t)) \in DOMAIN web.files /\ thread[t].at \in DOMAIN StatementsOf(t)
      /\ t \in Openers \/ t \in DOMAIN metatypes
  BY <1>1, <1>4, ExternHere, StatementHere, ThingFacts DEF Threads
<1>8. new \in EtypeRec /\ new.of = m /\ new.fits = s.fits /\ new.instead = Nothing
  <2>1. <<>> \in Seq(Threads) /\ Nothing \in Things
    BY EmptySeq, ThingFacts
  <2> QED BY <1>3, <1>5, <1>7, <2>1 DEF EtypeRec
<1>9. e \notin DOMAIN etypes
  <2>1. ASSUME e \in DOMAIN etypes PROVE FALSE
    <3>1. EtypeInv(e)
      BY <2>1 DEF LoadInv
    <3>2. PICK i \in DOMAIN StatementsOf(t) :
            /\ i < thread[t].at /\ StatementsOf(t)[i].kind = "extern"
            /\ e = Thing("extern", t, <<StatementsOf(t)[i].name>>)
      BY <3>1, <1>7 DEF EtypeInv
    <3>3. <<StatementsOf(t)[i].name>> = <<s.name>>
      BY <1>4, <3>2 DEF Thing
    <3>4. StatementsOf(t)[i].name = s.name
      BY <3>3
    <3>5. i = thread[t].at
      BY <1>1, <1>7, <3>2, <3>4, NamesAreUnique DEF StatementsOf, StatementAt
    <3> QED BY <1>7, <3>2, <3>5
  <2> QED BY <2>1
<1>10. /\ DOMAIN etypes' = DOMAIN etypes \cup {e} /\ etypes'[e] = new
       /\ \A x \in DOMAIN etypes : etypes'[x] = etypes[x]
  BY <1>6, <1>9 DEF Put
<1>11. /\ ThreadStep(t) /\ HasNoMore(t)
       /\ t \in DOMAIN metatypes => LoadGoesOn(t) /\ thread'[t].pc \notin Over
       /\ thread'[t].pc \notin Setting /\ thread'[t].subject = Nothing
       /\ thread'[t].at = thread[t].at + 1
  <2>1. ValidType(e)'
    BY <1>10 DEF ValidType
  <2> QED BY <1>1, <1>6, <1>7, <2>1, TypeHere
<1> DEFINE types == Append(metatypes[m].types, e)
<1>12. /\ types \in Seq(Things) /\ e \in Range(types)
       /\ \A x \in Range(metatypes[m].types) : x \in Range(types)
       /\ \A k \in DOMAIN types : types[k] = e \/ (k \in DOMAIN metatypes[m].types /\ types[k] = metatypes[m].types[k])
  <2>1. metatypes[m].types \in Seq(Things)
    BY <1>3 DEF MetatypeRec
  <2>2. /\ DOMAIN metatypes[m].types = 1 .. Len(metatypes[m].types)
        /\ Len(metatypes[m].types) \in Nat
    BY <2>1, LenProperties
  <2>3. /\ types \in Seq(Things) /\ Len(types) = Len(metatypes[m].types) + 1
        /\ \A k \in 1 .. Len(metatypes[m].types) : types[k] = metatypes[m].types[k]
        /\ types[Len(metatypes[m].types) + 1] = e
    BY <1>7, <2>1, AppendProperties
  <2> HIDE DEF types
  <2>4. DOMAIN types = 1 .. Len(types)
    BY <2>3, LenProperties
  <2> QED BY <2>2, <2>3, <2>4 DEF Range
<1> HIDE DEF types
<1>13. /\ metatypes' \in Seq(MetatypeRec) /\ Len(metatypes') = Len(metatypes)
       /\ DOMAIN metatypes' = DOMAIN metatypes
       /\ \A n \in DOMAIN metatypes :
            /\ metatypes'[n].wants = metatypes[n].wants /\ metatypes'[n].proto = metatypes[n].proto
            /\ metatypes'[n].types = IF n = m THEN types ELSE metatypes[n].types
            /\ metatypes'[n].cleared = metatypes[n].cleared
            /\ metatypes'[n].holder = metatypes[n].holder
  <2>1. metatypes' = [metatypes EXCEPT ![m] = [metatypes[m] EXCEPT !.types = types]]
    BY <1>6 DEF types
  <2>2. [metatypes[m] EXCEPT !.types = types] \in MetatypeRec
    BY <1>3, <1>12 DEF MetatypeRec
  <2>3. /\ DOMAIN metatypes' = DOMAIN metatypes
        /\ \A n \in DOMAIN metatypes :
             metatypes'[n] = IF n = m THEN [metatypes[m] EXCEPT !.types = types] ELSE metatypes[n]
    BY <2>1
  <2>4. \A n \in DOMAIN metatypes : metatypes'[n] \in MetatypeRec
    BY <1>1, <2>2, <2>3, Typed
  <2>5. DOMAIN metatypes = 1 .. Len(metatypes) /\ Len(metatypes) \in Nat
    BY <1>1, Typed
  <2>6. metatypes' \in [1 .. Len(metatypes) -> MetatypeRec]
    BY <2>1, <2>4, <2>5
  <2>7. metatypes' \in Seq(MetatypeRec) /\ Len(metatypes') = Len(metatypes)
    BY <2>5, <2>6, SeqOfFunction
  <2> QED BY <1>3, <2>3, <2>7 DEF MetatypeRec
<1>14. Grows /\ BodiesStay /\ overwritten \subseteq overwritten'
  BY <1>1, <1>10, <1>13 DEF Grows, BodiesStay, Kept, IsProto
<1>15. DeadStays
  <2>1. Nothing \notin DOMAIN bodies
    BY DEF LoadInv, BodyInv, Thing, Nothing
  <2>2. \A p : Registered(p)' => Registered(p)
    BY <1>1 DEF Registered
  <2> QED BY <1>11, <2>1, <2>2, DeadOnes DEF ThreadStep
<1>16. TypesInv'
  <2>1. DOMAIN etypes' \subseteq Things /\ \A x \in DOMAIN etypes' : etypes'[x] \in EtypeRec
    BY <1>1, <1>7, <1>8, <1>10 DEF TypesInv
  <2>2. \A u \in DOMAIN registry :
          registry[u] \in DOMAIN bodies \/ \E n \in DOMAIN metatypes' : registry[u] = Metatype(n)
    BY <1>1, <1>13 DEF TypesInv
  <2> QED BY <1>1, <1>11, <1>13, <2>1, <2>2 DEF TypesInv, ThreadStep, Metatype
<1>17. AllOnward /\ \A u \in Threads : PlaceInv(u)' /\ ReadInv(u)'
  BY <1>11, <1>13, <1>14, <1>16, OthersKept DEF ThreadStep
<1>18. TypesStep
  <2>1. ASSUME NEW x \in DOMAIN etypes
        PROVE  metatypes'[etypes[x].of].cleared \/ x \in Range(metatypes'[etypes[x].of].types)
    <3>1. EtypeInv(x)
      BY DEF LoadInv
    <3> QED BY <1>12, <1>13, <3>1 DEF EtypeInv
  <2>2. EtypeInv(e)'
    <3>1. Url(t)' = Url(t) /\ StatementsOf(t)' = StatementsOf(t)
      BY <1>7, <1>14, UrlsStay
    <3>2. Opens(t)'
      <4>1. thread'[t].pc \notin {"idle", "fetch"}
        BY <1>1, <1>11 DEF ThreadStep, Onward
      <4> QED BY <1>1, <1>7, <3>1, <4>1 DEF Opens, FileOf
    <3>3. /\ thread[t].at < thread'[t].at /\ StatementsOf(t)[thread[t].at].kind = "extern"
          /\ e = Thing("extern", t, <<StatementsOf(t)[thread[t].at].name>>)
      BY <1>4, <1>7, <1>11 DEF StatementAt
    <3>4. \E i \in DOMAIN StatementsOf(t) :
            /\ i < thread'[t].at /\ StatementsOf(t)[i].kind = "extern"
            /\ e = Thing("extern", t, <<StatementsOf(t)[i].name>>)
      BY <1>7, <3>3
    <3>5. Misfit' = Misfit
      BY <1>1 DEF Misfit, Declarations, Those
    <3> QED BY <1>7, <1>8, <1>10, <1>12, <1>13, <3>1, <3>2, <3>4, <3>5 DEF EtypeInv
  <2> QED BY <1>1, <1>10, <2>1, <2>2 DEF TypesStep
<1>19. LoadsStep
  <2>0. LocksOf(t)
    <3>1. \A n \in DOMAIN metatypes : metatypes[n].holder # t
      BY <1>1, NumbersAreNotOpeners DEF LoadInv, SetInv, Makes
    <3> QED BY <1>13, <3>1 DEF LocksOf
  <2>1. ASSUME NEW n \in DOMAIN metatypes, n # m PROVE LoadGoesOn(n) /\ LoadStays(n)
    <3>1. n \in Threads
      BY Typed DEF LoadInv
    <3>2. LoadGoesOn(n)
      BY <1>11, <3>1 DEF LoadGoesOn, ThreadStep, Others
    <3>3. /\ metatypes'[n].holder # NoOne => thread'[metatypes'[n].holder].pc \in Makes \cup {"types"}
          /\ thread'[n].pc \in Setting => metatypes'[n].holder = n
      <4>1. thread'[n].pc \in Setting /\ n = t => thread[t].pc \in Setting
        BY <1>11
      <4> QED BY <1>11, <2>0, <4>1, LocksKept DEF ThreadStep
    <3>4. TypesOf(n)' = TypesOf(n) /\ \A x \in TypesOf(n) : IsSet(x) => IsSet(x)'
      BY <1>8, <1>10, <2>1 DEF TypesOf, IsSet
    <3> QED BY <1>1, <1>13, <2>1, <3>2, <3>3, <3>4 DEF LoadStays
  <2>2. SetInv(m) /\ OutcomeInv(m) /\ metatypes[m].holder = NoOne
    BY <1>6 DEF LoadInv, Free
  <2>3. thread[m].pc \notin Setting /\ thread'[m].pc \notin Setting
    BY <1>3, <1>11, <2>2 DEF SetInv, ThreadStep, Others
  <2>4. SetInv(m)'
    <3>1. metatypes'[m].holder = NoOne
      BY <1>13, <2>2
    <3> QED BY <2>3, <3>1 DEF SetInv, Setting
  <2>5. m = t => thread[m].pc \notin Setting \cup Over /\ thread'[m].pc \notin Setting \cup Over
    BY <1>1, <1>11 DEF Setting, Over
  <2>6. m # t => thread'[m] = thread[m]
    BY <1>3, <1>11 DEF ThreadStep, Others
  <2>7. ASSUME thread'[m].pc \in Over PROVE Excused(m)'
    <3>1. Excused(m)
      BY <1>6, <2>2, <2>5, <2>6, <2>7 DEF OutcomeInv, Excused
    <3> QED BY <1>13, <1>14, <1>15, <2>2, <3>1, ExcusesStay
  <2>8. OutcomeInv(m)'
    <3>1. \A k \in DOMAIN metatypes'[m].types : metatypes'[m].types[k] \in TypesOf(m)'
      <4>1. \A x \in TypesOf(m) \cup {e} : x \in TypesOf(m)'
        BY <1>8, <1>10 DEF TypesOf
      <4> QED BY <1>12, <1>13, <2>2, <4>1 DEF OutcomeInv
    <3>2. thread'[m].pc \notin Setting \cup Over => metatypes'[m].proto = Nothing
      BY <1>13, <2>2, <2>5, <2>6 DEF OutcomeInv
    <3>3. metatypes'[m].cleared <=> thread'[m].pc = "end"
      BY <1>13, <2>2, <2>5, <2>6 DEF OutcomeInv, Over
    <3>4. m \in left' => metatypes'[m].cleared /\ Excused(m)'
      BY <1>1, <1>13, <2>2, <2>7, <3>3 DEF OutcomeInv, Over
    <3>5. metatypes'[m].proto = Nothing \/ metatypes'[m].proto \in DOMAIN bodies'
      BY <1>1, <1>13, <2>2 DEF OutcomeInv
    <3> QED BY <2>7, <3>1, <3>2, <3>3, <3>4, <3>5 DEF OutcomeInv
  <2> QED BY <1>13, <2>1, <2>4, <2>8 DEF LoadsStep
<1> QED BY <1>14, <1>15, <1>16, <1>17, <1>18, <1>19, StepKeeps

\* It has its PROTO.
LEMMA KnownTypeKeeps ==
  ASSUME LoadInv, NEW t \in Threads, NewType(t), ProtoLives(metatypes[thread[t].subject.by].proto)
  PROVE  LoadInv' /\ Stays /\ Quiet(t)
<1> DEFINE s == StatementAt(t)
           p == metatypes[thread[t].subject.by].proto
<1>1. /\ thread[t].pc = "type" /\ TypesInv
      /\ UNCHANGED <<web, registry, metatypes, etypes, bodies, broke, left, overwritten>>
  BY DEF NewType, At, LoadInv
<1>2. PICK m \in DOMAIN metatypes : thread[t].subject = Metatype(m)
  BY <1>1 DEF LoadInv, PlaceInv
<1>3. m = thread[t].subject.by /\ p \in Things /\ OutcomeInv(m)
  BY <1>1, <1>2, Typed, ThingFacts DEF MetatypeRec, LoadInv
<1>4. s.fits \in BOOLEAN /\ (s.fits \/ Misfit)
  BY <1>1, ExternHere
<1>5. LockStep /\ LocksOf(t) /\ NodesOnly
  BY <1>1, NoLocks, NoNodes DEF Makes
<1>6. CASE s.fits
  <2>1. Follow(t, Put(thread[t].known, s.name, p))
    BY <1>6 DEF NewType
  <2>2. ValidType(p)
    BY <1>3 DEF OutcomeInv, ValidType
  <2> HIDE DEF p
  <2>3. PICK x : x = p
    OBVIOUS
  <2>4. Grows => ValidType(x)'
    BY <2>2, <2>3, KnownStays
  <2>5. ThreadStep(t) /\ HasNoMore(t) /\ (t \in DOMAIN metatypes => LoadGoesOn(t))
    BY <1>1, <1>3, <2>1, <2>3, <2>4, TypeHere
  <2> QED BY <1>1, <1>5, <2>5, PlainStep DEF ThreadStep
<1>7. CASE ~s.fits
  <2>1. GiveUp(t)
    BY <1>7 DEF NewType
  <2> QED BY <1>1, <1>4, <1>7, <2>1, GiveUpKeeps
<1> QED BY <1>4, <1>6, <1>7

-----------------------------------------------------------------------------
(* Loads. *)

\* The load thread of m reads, or has read, a file, sets types, or ends.
LEMMA LoaderHere ==
  ASSUME LoadInv, NEW m \in Loaders, thread[m].pc # "idle"
  PROVE  /\ m \in DOMAIN metatypes /\ m \in Threads /\ m \notin Openers /\ m # NoOne
         /\ TypesInv /\ web \in Webs /\ thread[m] \in ThreadRec /\ metatypes[m] \in MetatypeRec
         /\ PlaceInv(m) /\ ReadInv(m) /\ SetInv(m) /\ OutcomeInv(m)
         /\ FileOf(Url(m)) = FileOf(metatypes[m].wants)
<1>1. /\ m \in Threads /\ m \notin Openers /\ m # NoOne /\ PlaceInv(m) /\ ReadInv(m) /\ TypesInv
      /\ web \in Webs
  BY NumbersAreNotOpeners DEF Threads, LoadInv, TypesInv
<1>2. m \in DOMAIN metatypes
  BY <1>1 DEF PlaceInv
<1>3. SetInv(m) /\ OutcomeInv(m)
  BY <1>2 DEF LoadInv
<1>4. FileOf(Url(m)) = FileOf(metatypes[m].wants)
  BY <1>1, SameFile
<1> QED BY <1>1, <1>2, <1>3, <1>4, Typed

\* The thread has no PROTO to set, or has set all types.
LEMMA EndsKeeps ==
  ASSUME LoadInv, NEW m \in Loaders, thread[m].pc \in {"fetch", "find", "types"},
         Go(m, "clear"), Excused(m) \/ (metatypes[m].proto # Nothing /\ \A e \in TypesOf(m) : IsSet(e)),
         UNCHANGED <<web, registry, etypes, bodies, broke, left, overwritten>>,
         metatypes' = Unlock(m, NoOne) \/ (UNCHANGED metatypes /\ thread[m].pc # "types")
  PROVE  LoadInv' /\ Stays /\ Quiet(m)
<1>1. /\ m \in DOMAIN metatypes /\ m \in Threads /\ m \notin Openers /\ m # NoOne /\ TypesInv
      /\ thread[m] \in ThreadRec
  BY LoaderHere
<1>2. /\ thread' \in [Threads -> ThreadRec] /\ Others(m)
      /\ thread'[m].pc = "clear" /\ thread'[m].at = thread[m].at
      /\ thread'[m].known = thread[m].known /\ thread'[m].type = thread[m].type
  BY <1>1, GoFacts DEF Places
<1>3. Onward(m) /\ HasNoMore(m) /\ LoadEnds(m)
  <2>1. thread[m].at \in Nat
    BY <1>1 DEF ThreadRec
  <2> QED BY <1>2, <2>1 DEF Onward, HasNoMore, InSet, LoadEnds
<1>4. Grows => PlaceInv(m)' /\ ReadInv(m)'
  BY <1>1, <1>2, FileLeft
<1>5. LockStep /\ LocksOf(m)
  <2>1. CASE metatypes' = Unlock(m, NoOne)
    <3>1. /\ LockStep
          /\ \A n \in DOMAIN metatypes :
               metatypes'[n].holder = IF metatypes[n].holder = m /\ n # NoOne THEN NoOne
                                      ELSE metatypes[n].holder
      BY <1>1, <2>1, UnlockFacts
    <3>2. \A n \in DOMAIN metatypes : n # NoOne
      BY <1>1, Typed
    <3>3. thread'[m].pc \notin Setting
      BY <1>2 DEF Setting
    <3> QED BY <3>1, <3>2, <3>3 DEF LocksOf
  <2>2. CASE UNCHANGED metatypes /\ thread[m].pc # "types"
    BY <1>1, <2>2, NoLocks DEF Makes
  <2> QED BY <2>1, <2>2
<1> QED BY <1>1, <1>2, <1>3, <1>4, <1>5, NoNodes, PlainStep

LEMMA FetchKeeps ==
  ASSUME LoadInv, NEW m \in Loaders, Fetch(m)
  PROVE  LoadInv' /\ Stays /\ Quiet(m)
<1> DEFINE f == FileOf(metatypes[m].wants)
<1>1. /\ thread[m].pc = "fetch"
      /\ UNCHANGED <<web, registry, metatypes, etypes, bodies, broke, left, overwritten>>
  BY DEF Fetch, At
<1>2. /\ m \in DOMAIN metatypes /\ m \in Threads /\ m \notin Openers /\ m # NoOne /\ TypesInv
      /\ thread[m] \in ThreadRec /\ PlaceInv(m) /\ OutcomeInv(m) /\ FileOf(Url(m)) = f
      /\ web \in Webs
  BY <1>1, LoaderHere
<1>3. CASE f \in DOMAIN web.files
  <2> DEFINE r == GoOn(m, web.files[f], 1, <<>>)
  <2>1. thread' = [thread EXCEPT ![m] = r]
    BY <1>3 DEF Fetch
  <2>2. StatementsOf(m) = web.files[f]
    BY <1>2 DEF StatementsOf
  <2>3. /\ Len(web.files[f]) \in Nat /\ 1 \in Nat \ {0} /\ <<>> \in Known
        /\ 1 <= Len(web.files[f]) => web.files[f][1].kind \in {"extern", "node", "proto"}
    <3>1. /\ Len(web.files[f]) \in Nat /\ DOMAIN web.files[f] = 1 .. Len(web.files[f])
          /\ \A i \in DOMAIN web.files[f] : web.files[f][i].kind \in {"extern", "node", "proto"}
      BY <1>2, <1>3, FileFacts
    <3> HIDE DEF f
    <3>2. 1 <= Len(web.files[f]) => 1 \in DOMAIN web.files[f]
      BY <3>1
    <3> QED BY <3>1, <3>2, KnownFacts
  <2>4. r \in ThreadRec
    <3> HIDE DEF f
    <3>1. WentOn(GoOn(m, web.files[f], 1, <<>>), m, web.files[f], 1, <<>>)
      BY <1>2, <2>3, GoOnFacts
    <3> QED BY <3>1 DEF WentOn
  <2> HIDE DEF r
  <2>5. thread' \in [Threads -> ThreadRec] /\ Others(m) /\ thread'[m] = r
    BY <1>2, <2>1, <2>4, MoveFacts
  <2>6. DOMAIN <<>> = {}
    BY EmptySeq
  <2>7. ComesTo(m, 1, <<>>)
    <3>1. \A j \in DOMAIN StatementsOf(m) : ~(j < 1)
      <4>1. DOMAIN StatementsOf(m) = 1 .. Len(StatementsOf(m)) /\ Len(StatementsOf(m)) \in Nat
        BY <1>2, <1>3, <2>2, FileFacts
      <4> QED BY <4>1
    <3> QED BY <1>2, <1>3, <2>2, <2>5, <2>6, <3>1 DEF ComesTo, r
  <2>8. Grows
    BY <1>1 DEF Grows, Kept, IsProto
  <2>9. /\ PlaceInv(m)' /\ ReadInv(m)' /\ thread'[m].at = 1
        /\ thread'[m].pc \in {"find", "extern", "node", "proto", "finish"}
    BY <1>2, <2>3, <2>7, <2>8, ThreadComes
  <2>10. Onward(m) /\ HasNoMore(m) /\ LoadGoesOn(m)
    BY <1>1, <1>2, <2>9 DEF PlaceInv, Onward, HasNoMore, InSet, LoadGoesOn, Setting, Over
  <2>11. LockStep /\ LocksOf(m) /\ NodesOnly
    BY <1>1, <1>2, NoLocks, NoNodes DEF Makes
  <2> QED BY <1>1, <1>2, <2>5, <2>9, <2>10, <2>11, PlainStep
<1>4. CASE f \notin DOMAIN web.files
  <2>1. Go(m, "clear")
    BY <1>4 DEF Fetch
  <2>2. Excused(m)
    BY <1>1, <1>2, <1>4 DEF OutcomeInv, Setting, Over, Excused, Provides
  <2> QED BY <1>1, <2>1, <2>2, EndsKeeps
<1> QED BY <1>3, <1>4

\* A URL is its file and its fragment.
LEMMA UrlParts ==
  ASSUME NEW S, NEW url \in Seq(S), url # <<>>
  PROVE  /\ <<FileOf(url)>> \o Tail(url) = url
         /\ Len(url) = 1 => <<FileOf(url)>> = url
<1>1. Len(url) \in Nat \ {0} /\ url[1] \in S /\ DOMAIN url = 1 .. Len(url)
  <2>1. Len(url) \in Nat \ {0} /\ DOMAIN url = 1 .. Len(url)
    BY EmptySeq, LenProperties
  <2> QED BY <2>1, ElementOfSeq
<1>2. /\ <<url[1]>> \in Seq(S) /\ Len(<<url[1]>>) = 1 /\ <<url[1]>>[1] = url[1]
  BY <1>1
<1>3. /\ Tail(url) \in Seq(S) /\ Len(Tail(url)) = Len(url) - 1
      /\ \A i \in 1 .. Len(Tail(url)) : Tail(url)[i] = url[i + 1]
  BY HeadTailProperties
<1>4. PICK h, r : h = <<url[1]>> /\ r = Tail(url)
  OBVIOUS
<1>5. /\ h \o r \in Seq(S) /\ Len(h \o r) = Len(h) + Len(r)
      /\ \A i \in 1 .. Len(h) + Len(r) : (h \o r)[i] = IF i <= Len(h) THEN h[i] ELSE r[i - Len(h)]
  BY <1>2, <1>3, <1>4, ConcatProperties
<1>6. Len(h \o r) = Len(url)
  BY <1>1, <1>2, <1>3, <1>4, <1>5
<1>7. ASSUME NEW i \in 1 .. Len(url) PROVE (h \o r)[i] = url[i]
  <2>1. CASE i = 1
    BY <1>1, <1>2, <1>3, <1>4, <1>5, <2>1
  <2>2. CASE i # 1
    <3>1. i - 1 \in 1 .. Len(r) /\ ~(i <= 1) /\ (i - 1) + 1 = i
      BY <1>1, <1>3, <1>4, <2>2
    <3>2. r[i - 1] = url[i]
      BY <1>3, <1>4, <3>1
    <3> QED BY <1>1, <1>2, <1>3, <1>4, <1>5, <3>1, <3>2
  <2> QED BY <2>1, <2>2
<1>8. h \o r = url
  BY <1>5, <1>6, <1>7, SeqEqual
<1>9. Len(url) = 1 => h = url
  BY <1>1, <1>2, <1>4, SeqEqual
<1> QED BY <1>4, <1>8, <1>9 DEF FileOf

LEMMA FindProtoKeeps ==
  ASSUME LoadInv, NEW m \in Loaders, FindProto(m)
  PROVE  LoadInv' /\ Stays /\ Quiet(m)
<1> DEFINE url == metatypes[m].wants
<1>1. /\ thread[m].pc = "find"
      /\ UNCHANGED <<web, registry, metatypes, etypes, bodies, broke, left, overwritten>>
  BY DEF FindProto, At
<1>2. /\ m \in DOMAIN metatypes /\ m \in Threads /\ m \notin Openers /\ m # NoOne /\ TypesInv
      /\ thread[m] \in ThreadRec /\ PlaceInv(m) /\ ReadInv(m) /\ OutcomeInv(m)
      /\ web \in Webs /\ metatypes[m] \in MetatypeRec /\ FileOf(Url(m)) = FileOf(url)
  BY <1>1, LoaderHere
<1>3. CASE IsProto(url)
  <2>1. PICK x : x = registry[url]
    OBVIOUS
  <2>2. GoWith(m, "set", x) /\ "set" \in Places
    BY <1>3, <2>1 DEF FindProto, Places, InSet
  <2>3. x \in DOMAIN bodies /\ x \in Things /\ Registered(x)
    BY <1>3, <2>1, RegistryFacts DEF IsProto
  <2>4. /\ thread' \in [Threads -> ThreadRec] /\ Others(m)
        /\ thread'[m].pc = "set" /\ thread'[m].at = thread[m].at
        /\ thread'[m].known = thread[m].known /\ thread'[m].type = thread[m].type
        /\ thread'[m].subject = x
    BY <1>2, <2>2, <2>3, GoFacts
  <2>5. Onward(m) /\ HasNoMore(m) /\ LoadGoesOn(m)
    <3>1. thread[m].at \in Nat
      BY <1>2 DEF ThreadRec
    <3> QED BY <1>1, <2>3, <2>4, <3>1 DEF Onward, HasNoMore, LoadGoesOn, Setting, Over
  <2>6. ASSUME Grows PROVE PlaceInv(m)' /\ ReadInv(m)'
    <3>1. \A y : y = thread[m].type \/ (\E n \in DOMAIN thread[m].known : y = thread[m].known[n])
                   => ValidType(y)'
      BY <1>2, <2>6, KnownStays DEF PlaceInv
    <3>2. ValidType(thread[m].type)' /\ \A n \in DOMAIN thread'[m].known : ValidType(thread[m].known[n])'
      BY <2>4, <3>1
    <3>3. FileOf(Url(m))' \in DOMAIN web'.files
      <4>1. FileOf(Url(m)) \in DOMAIN web.files /\ Url(m)' = Url(m)
        BY <1>1, <1>2, <2>6, UrlsStay DEF PlaceInv, Reading
      <4> QED BY <2>6, <4>1 DEF FileOf, Grows
    <3>4. "set" \notin InParse
      BY DEF InParse
    <3> QED BY <1>1, <1>2, <2>3, <2>4, <3>2, <3>3, <3>4 DEF PlaceInv, ReadInv
  <2>7. LockStep /\ LocksOf(m) /\ NodesOnly
    BY <1>1, <1>2, NoLocks, NoNodes DEF Makes
  <2> QED BY <1>1, <1>2, <2>4, <2>5, <2>6, <2>7, PlainStep
<1>4. CASE ~IsProto(url)
  <2>1. Go(m, "clear")
    BY <1>4 DEF FindProto
  <2>2. metatypes[m].proto = Nothing
    BY <1>1, <1>2 DEF OutcomeInv, Setting, Over
  <2>3. ASSUME Provides(url) PROVE url \in overwritten
    <3>1. PICK s \in Those(FileOf(url), "proto") : web.fragments \/ Len(url) = 1 \/ Tail(url) = Path(s)
      BY <2>3 DEF Provides
    <3>2. FileOf(url) \in DOMAIN web.files
      BY <2>3 DEF Provides
    <3>3. PICK i \in DOMAIN StatementsOf(m) : StatementsOf(m)[i] = s
      BY <1>2, <3>1 DEF Those, Range, StatementsOf
    <3>4. s.kind = "proto"
      BY <3>1 DEF Those
    <3>5. Kept(Url(m) \o Path(s)) /\ Kept(Url(m))
      <4>1. i < thread[m].at
        <5>1. /\ DOMAIN StatementsOf(m) = 1 .. Len(StatementsOf(m)) /\ Len(StatementsOf(m)) \in Nat
          BY <1>2, <3>2, FileFacts DEF StatementsOf
        <5>2. thread[m].at > Len(StatementsOf(m)) /\ thread[m].at \in Nat
          BY <1>1, <1>2 DEF PlaceInv, ThreadRec
        <5> QED BY <5>1, <5>2
      <4> QED BY <1>1, <1>2, <3>3, <3>4, <4>1 DEF ReadInv, Finished
    <3>6. Url(m) = IF web.fragments THEN url ELSE <<FileOf(url)>>
      BY <1>2 DEF Url
    <3>7. /\ <<FileOf(url)>> \o Tail(url) = url
          /\ Len(url) = 1 => <<FileOf(url)>> = url
      <4>1. PICK r \in Statements : r.kind = "extern" /\ url = r.wants
        BY <1>2 DEF MetatypeRec
      <4>2. url \in Seq(Range(url)) /\ url # <<>>
        BY <4>1, StatementFacts
      <4> QED BY <4>2, UrlParts
    <3>8. Kept(url)
      BY <3>1, <3>5, <3>6, <3>7
    <3> QED BY <1>4, <3>8 DEF Kept
  <2>4. Excused(m)
    BY <2>2, <2>3 DEF Excused
  <2> QED BY <1>1, <2>1, <2>4, EndsKeeps
<1> QED BY <1>3, <1>4

\* A step of a load thread that changes its metatype, and sets or clears types of it.
LEMMA LoadStep ==
  ASSUME LoadInv, NEW m \in Loaders, thread[m].pc \in {"set", "types", "clear"},
         thread' \in [Threads -> ThreadRec], Others(m), Onward(m), HasNoMore(m),
         thread[m].pc = "types" => thread'[m].pc \in Makes \cup {"types"},
         UNCHANGED <<web, registry, bodies, broke, overwritten>>,
         metatypes' \in Seq(MetatypeRec), Len(metatypes') = Len(metatypes),
         metatypes'[m].wants = metatypes[m].wants,
         metatypes'[m].cleared \/ (metatypes'[m].types = metatypes[m].types /\ ~metatypes[m].cleared),
         \A n \in DOMAIN metatypes : n # m => metatypes'[n] = metatypes[n],
         DOMAIN etypes' = DOMAIN etypes,
         \A e \in DOMAIN etypes :
           /\ etypes'[e] \in EtypeRec /\ etypes'[e].of = etypes[e].of
           /\ etypes'[e].fits = etypes[e].fits
           /\ etypes'[e].instead = etypes[e].instead \/ etypes'[e].instead \in DOMAIN bodies,
         left' \subseteq left \cup {m},
         Grows => PlaceInv(m)' /\ ReadInv(m)',
         Grows /\ DeadStays => SetInv(m)' /\ OutcomeInv(m)'
  PROVE  LoadInv' /\ Stays
<1>1. /\ m \in DOMAIN metatypes /\ m \in Threads /\ m \notin Openers /\ m # NoOne /\ TypesInv
      /\ web \in Webs /\ thread[m] \in ThreadRec
  BY LoaderHere
<1>2. DOMAIN metatypes' = DOMAIN metatypes
  BY <1>1, Typed, LenProperties
<1>3. Grows /\ BodiesStay /\ overwritten \subseteq overwritten'
  BY <1>2 DEF Grows, BodiesStay, Kept, IsProto
<1>4. TypesInv'
  <2>1. left' \subseteq DOMAIN metatypes'
    BY <1>1, <1>2 DEF TypesInv
  <2>2. \A u \in DOMAIN registry :
          registry[u] \in DOMAIN bodies \/ \E n \in DOMAIN metatypes' : registry[u] = Metatype(n)
    BY <1>1, <1>2 DEF TypesInv
  <2> QED BY <1>1, <2>1, <2>2 DEF TypesInv, Metatype
<1>5. DeadStays
  <2>1. \A p : Registered(p)' <=> Registered(p)
    BY DEF Registered
  <2>2. ASSUME NEW p, NEW u \in Threads, Holds(u, p, InSet \cup {"check", "first"})'
        PROVE  ProtoLives(p)
    <3>1. CASE u = m
      BY <2>2, <3>1 DEF Holds, HasNoMore, ProtoLives
    <3>2. CASE u # m
      BY <2>2, <3>2 DEF Holds, Others, ProtoLives
    <3> QED BY <3>1, <3>2
  <2> QED BY <2>1, <2>2 DEF DeadStays, ProtoLives
<1>6. AllOnward /\ \A u \in Threads : PlaceInv(u)' /\ ReadInv(u)'
  BY <1>1, <1>2, <1>3, <1>4, OthersKept
<1>7. TypesStep
  <2>1. ASSUME NEW e \in DOMAIN etypes
        PROVE  metatypes'[etypes[e].of].cleared \/ e \in Range(metatypes'[etypes[e].of].types)
    <3>1. EtypeInv(e)
      BY DEF LoadInv
    <3>2. CASE etypes[e].of = m
      BY <3>1, <3>2 DEF EtypeInv
    <3>3. CASE etypes[e].of # m
      BY <3>1, <3>3 DEF EtypeInv
    <3> QED BY <3>2, <3>3
  <2> QED BY <2>1 DEF TypesStep
<1>8. LoadsStep
  <2>1. ASSUME NEW n \in DOMAIN metatypes, n # m PROVE LoadGoesOn(n) /\ LoadStays(n)
    <3>1. n \in Threads /\ thread'[n] = thread[n] /\ metatypes'[n] = metatypes[n] /\ SetInv(n)
      BY <1>1, <2>1, Typed DEF LoadInv, Others
    <3>2. metatypes[n].holder \in Threads \cup {NoOne}
      BY <1>1, Typed DEF MetatypeRec
    <3>3. metatypes[n].holder = m => thread'[m].pc \in Makes \cup {"types"}
      BY <1>1, <3>1 DEF SetInv, Makes
    <3>4. metatypes'[n].holder # NoOne => thread'[metatypes'[n].holder].pc \in Makes \cup {"types"}
      BY <3>1, <3>2, <3>3 DEF SetInv, Others
    <3>5. TypesOf(n)' = TypesOf(n)
      BY DEF TypesOf
    <3>6. Nothing \notin DOMAIN bodies
      BY DEF LoadInv, BodyInv, Thing, Nothing
    <3>7. \A e \in TypesOf(n) : IsSet(e) => IsSet(e)'
      BY <3>6 DEF TypesOf, IsSet
    <3> QED BY <2>1, <3>1, <3>4, <3>5, <3>7 DEF LoadGoesOn, LoadStays, SetInv
  <2> QED BY <1>2, <1>3, <1>5, <2>1 DEF LoadsStep
<1> QED BY <1>3, <1>4, <1>5, <1>6, <1>7, <1>8, StepKeeps

\* A thread that sets types is where it can be.
LEMMA SetterPlace ==
  ASSUME LoadInv, Grows, NEW m \in Loaders, thread[m].pc \in InSet, thread'[m].pc \in InSet,
         thread'[m].subject = thread[m].subject, thread'[m].known = thread[m].known,
         thread'[m].type \in {thread[m].type, thread[m].subject}
  PROVE  PlaceInv(m)' /\ ReadInv(m)'
<1>1. /\ m \in DOMAIN metatypes /\ m \in Threads /\ m \notin Openers /\ PlaceInv(m)
  BY LoaderHere DEF InSet
<1>2. /\ FileOf(Url(m)) \in DOMAIN web.files /\ thread[m].subject \in DOMAIN bodies
  BY <1>1 DEF PlaceInv, Reading
<1>3. ValidType(thread[m].type)' /\ \A n \in DOMAIN thread'[m].known : ValidType(thread[m].known[n])'
  <2>1. \A x : x \in {thread[m].type, thread[m].subject}
                 \/ (\E n \in DOMAIN thread[m].known : x = thread[m].known[n]) => ValidType(x)'
    BY <1>1, <1>2, KnownStays DEF PlaceInv, ValidType
  <2> QED BY <2>1
<1>4. FileOf(Url(m))' \in DOMAIN web'.files
  <2>1. Url(m)' = Url(m)
    BY <1>1, UrlsStay
  <2> QED BY <1>2, <2>1 DEF FileOf, Grows
<1>5. thread'[m].subject \in DOMAIN bodies' /\ m \in DOMAIN metatypes'
  BY <1>1, <1>2 DEF Grows
<1>6. thread'[m].pc \notin InParse \cup {"idle", "fetch", "find", "id", "url", "type", "check", "first"}
  BY DEF InSet, InParse
<1>7. PlaceInv(m)'
  BY <1>1, <1>3, <1>4, <1>5, <1>6 DEF PlaceInv
<1> QED BY <1>6, <1>7 DEF ReadInv

LEMMA SetProtoKeeps ==
  ASSUME LoadInv, NEW m \in Loaders, SetProto(m)
  PROVE  LoadInv' /\ Stays
<1>1. thread[m].pc = "set" /\ thread[m].pc \in InSet
  BY DEF SetProto, At, InSet
<1>2. /\ m \in DOMAIN metatypes /\ m \in Threads /\ m \notin Openers /\ m # NoOne /\ TypesInv
      /\ thread[m] \in ThreadRec /\ PlaceInv(m) /\ SetInv(m) /\ OutcomeInv(m)
      /\ metatypes[m] \in MetatypeRec
  BY <1>1, LoaderHere
<1>3. CASE ~MetatypeLives(m)
  <2>1. Break("metatype")
    BY <1>3 DEF SetProto
  <2> QED BY <2>1, StutterKeeps DEF Break
<1>4. CASE MetatypeLives(m)
  <2>1. /\ metatypes' = [metatypes EXCEPT ![m].holder = m, ![m].proto = thread[m].subject]
        /\ thread' = [thread EXCEPT ![m].pc = "types", ![m].next = 1]
        /\ UNCHANGED <<web, registry, etypes, bodies, broke, left, overwritten>>
    BY <1>4 DEF SetProto
  <2>2. PICK x : x = thread[m].subject
    OBVIOUS
  <2>3. x \in DOMAIN bodies /\ x \in Things
    BY <1>1, <1>2, <2>2 DEF PlaceInv, ThreadRec
  <2>4. /\ thread' \in [Threads -> ThreadRec] /\ Others(m)
        /\ thread'[m].pc = "types" /\ thread'[m].next = 1 /\ thread'[m].at = thread[m].at
        /\ thread'[m].known = thread[m].known /\ thread'[m].type = thread[m].type
        /\ thread'[m].subject = x
    <3>1. thread' = [thread EXCEPT ![m] = [thread[m] EXCEPT !.pc = "types", !.next = 1]]
      BY <2>1
    <3>2. [thread[m] EXCEPT !.pc = "types", !.next = 1] \in ThreadRec
      <4>1. "types" \in Places /\ 1 \in Nat
        BY DEF Places, InSet
      <4> QED BY <1>2, <4>1 DEF ThreadRec
    <3>3. /\ thread' \in [Threads -> ThreadRec] /\ Others(m)
          /\ thread'[m] = [thread[m] EXCEPT !.pc = "types", !.next = 1]
      BY <1>2, <3>1, <3>2, MoveFacts
    <3> QED BY <1>2, <2>2, <3>3 DEF ThreadRec
  <2>5. /\ metatypes' \in Seq(MetatypeRec) /\ Len(metatypes') = Len(metatypes)
        /\ metatypes'[m].wants = metatypes[m].wants /\ metatypes'[m].types = metatypes[m].types
        /\ metatypes'[m].cleared = metatypes[m].cleared
        /\ metatypes'[m].holder = m /\ metatypes'[m].proto = x
        /\ \A n \in DOMAIN metatypes : n # m => metatypes'[n] = metatypes[n]
    <3>1. metatypes' = [metatypes EXCEPT ![m] = [metatypes[m] EXCEPT !.holder = m, !.proto = x]]
      BY <2>1, <2>2
    <3>2. [metatypes[m] EXCEPT !.holder = m, !.proto = x] \in MetatypeRec
      BY <1>2, <2>3 DEF MetatypeRec
    <3>3. /\ DOMAIN metatypes = 1 .. Len(metatypes) /\ Len(metatypes) \in Nat
          /\ \A n \in DOMAIN metatypes : metatypes[n] \in MetatypeRec
      BY <1>2, Typed
    <3>4. metatypes' \in [1 .. Len(metatypes) -> MetatypeRec]
      BY <3>1, <3>2, <3>3
    <3>5. metatypes' \in Seq(MetatypeRec) /\ Len(metatypes') = Len(metatypes)
      BY <3>3, <3>4, SeqOfFunction
    <3>6. /\ metatypes'[m] = [metatypes[m] EXCEPT !.holder = m, !.proto = x]
          /\ \A n \in DOMAIN metatypes : n # m => metatypes'[n] = metatypes[n]
      BY <1>2, <3>1
    <3> QED BY <1>2, <3>5, <3>6 DEF MetatypeRec
  <2>6. ~metatypes[m].cleared
    BY <1>1, <1>2 DEF OutcomeInv
  <2>7. Onward(m) /\ HasNoMore(m)
    <3>1. thread[m].at \in Nat
      BY <1>2 DEF ThreadRec
    <3> QED BY <1>1, <2>2, <2>4, <3>1 DEF Onward, HasNoMore
  <2>8. Grows => PlaceInv(m)' /\ ReadInv(m)'
    <3>1. thread'[m].pc \in InSet
      BY <2>4 DEF InSet
    <3> QED BY <1>1, <2>2, <2>4, <3>1, SetterPlace
  <2>9. SetInv(m)' /\ OutcomeInv(m)'
    <3>1. TypesOf(m)' = TypesOf(m)
      BY <2>1 DEF TypesOf
    <3>2. ASSUME NEW e \in TypesOf(m) PROVE ToBeSet(m, e)'
      <4>1. EtypeInv(e) /\ etypes[e].of = m
        BY DEF LoadInv, TypesOf
      <4>2. PICK k \in DOMAIN metatypes[m].types : metatypes[m].types[k] = e
        BY <2>6, <4>1 DEF EtypeInv, Range
      <4>3. k \in Nat /\ 1 <= k
        <5>1. metatypes[m].types \in Seq(Things)
          BY <1>2 DEF MetatypeRec
        <5>2. DOMAIN metatypes[m].types = 1 .. Len(metatypes[m].types)
          BY <5>1, LenProperties
        <5> QED BY <5>2
      <4>4. 1 < k \/ 1 = k
        BY <4>3
      <4> QED BY <2>4, <2>5, <4>2, <4>4 DEF ToBeSet
    <3>3. SetInv(m)'
      BY <1>2, <2>2, <2>4, <2>5, <3>1, <3>2 DEF SetInv, Setting
    <3>4. OutcomeInv(m)'
      BY <1>2, <2>1, <2>3, <2>4, <2>5, <2>6, <3>1 DEF OutcomeInv, Setting, Over
    <3> QED BY <3>3, <3>4
  <2>10. \A e \in DOMAIN etypes : etypes[e] \in EtypeRec
    BY <1>2 DEF TypesInv
  <2> QED BY <1>1, <2>1, <2>4, <2>5, <2>6, <2>7, <2>8, <2>9, <2>10, LoadStep
<1> QED BY <1>3, <1>4

LEMMA SetTypeKeeps ==
  ASSUME LoadInv, NEW m \in Loaders, SetType(m)
  PROVE  LoadInv' /\ Stays
<1>1. thread[m].pc = "types" /\ thread[m].pc \in Setting /\ thread[m].pc \in InSet
  BY DEF SetType, At, InSet, Setting
<1>2. /\ m \in DOMAIN metatypes /\ m \in Threads /\ m \notin Openers /\ m # NoOne /\ TypesInv
      /\ thread[m] \in ThreadRec /\ PlaceInv(m) /\ SetInv(m) /\ OutcomeInv(m)
  BY <1>1, LoaderHere
<1>3. PICK e, x : e = TypeAt(m) /\ x = thread[m].subject
  OBVIOUS
<1>4. /\ e \in TypesOf(m) /\ e \in DOMAIN etypes /\ etypes[e] \in EtypeRec /\ etypes[e].of = m
      /\ x \in DOMAIN bodies /\ x \in Things
      /\ thread[m].next \in Nat \ {0} /\ thread[m].next \in DOMAIN metatypes[m].types
      /\ metatypes[m].types[thread[m].next] = e
      /\ DOMAIN metatypes[m].types \subseteq Nat
  <2>1. thread[m].next <= Len(metatypes[m].types)
    BY DEF SetType
  <2>2. metatypes[m].types \in Seq(Things)
    BY <1>1, <1>2, ReplaceFacts
  <2>3. DOMAIN metatypes[m].types = 1 .. Len(metatypes[m].types)
    BY <2>2, LenProperties
  <2> QED BY <1>1, <1>2, <1>3, <2>1, <2>3, ReplaceFacts DEF TypeAt, TypesOf, ThreadRec
<1>5. CASE ~ScopeLives(e.by)
  <2>1. Break("expired")
    BY <1>3, <1>5 DEF SetType
  <2> QED BY <2>1, StutterKeeps DEF Break
<1>6. CASE ScopeLives(e.by) /\ ~etypes[e].fits
  <2>1. /\ Go(m, "clear") /\ metatypes' = Unlock(m, NoOne)
        /\ UNCHANGED <<web, registry, etypes, bodies, broke, left, overwritten>>
    BY <1>3, <1>6 DEF SetType
  <2>2. Excused(m)
    <3>1. EtypeInv(e)
      BY <1>4 DEF LoadInv
    <3> QED BY <1>6, <3>1 DEF EtypeInv, Excused
  <2> QED BY <1>1, <2>1, <2>2, EndsKeeps
<1>7. CASE ScopeLives(e.by) /\ etypes[e].fits
  <2> DEFINE r == IF etypes[e].nodes = <<>> THEN [thread[m] EXCEPT !.next = @ + 1]
                  ELSE [thread[m] EXCEPT !.pc = "replace", !.node = 1, !.type = thread[m].subject,
                                         !.scope = etypes[e].nodes[1]]
  <2>1. /\ etypes' = [etypes EXCEPT ![e].instead = x]
        /\ thread' = [thread EXCEPT ![m] = r]
        /\ UNCHANGED <<web, registry, metatypes, bodies, broke, left, overwritten>>
    BY <1>3, <1>7 DEF SetType
  <2>2. /\ r \in ThreadRec /\ r.at = thread[m].at /\ r.known = thread[m].known
        /\ r.subject = x /\ r.type \in {thread[m].type, thread[m].subject}
        /\ \/ r.pc = "replace" /\ r.next = thread[m].next
           \/ r.pc = "types" /\ r.next = thread[m].next + 1
    <3>1. CASE etypes[e].nodes = <<>>
      <4>1. r = [thread[m] EXCEPT !.next = thread[m].next + 1]
        BY <3>1
      <4> HIDE DEF r
      <4>2. [thread[m] EXCEPT !.next = thread[m].next + 1] \in ThreadRec
        <5>1. thread[m].next + 1 \in Nat
          BY <1>4
        <5> QED BY <1>2, <5>1 DEF ThreadRec
      <4> QED BY <1>1, <1>2, <1>3, <4>1, <4>2 DEF ThreadRec
    <3>2. CASE etypes[e].nodes # <<>>
      <4>1. r = [thread[m] EXCEPT !.pc = "replace", !.node = 1, !.type = thread[m].subject,
                                  !.scope = etypes[e].nodes[1]]
        BY <3>2
      <4> HIDE DEF r
      <4>2. etypes[e].nodes[1] \in Threads
        <5>1. etypes[e].nodes \in Seq(Threads)
          BY <1>4 DEF EtypeRec
        <5>2. 1 \in 1 .. Len(etypes[e].nodes)
          <6>1. Len(etypes[e].nodes) \in Nat \ {0}
            BY <3>2, <5>1, EmptySeq, LenProperties
          <6> QED BY <6>1
        <5> QED BY <5>1, <5>2, ElementOfSeq
      <4>3. "replace" \in Places /\ 1 \in Nat
        BY DEF Places, InSet
      <4>4. ASSUME NEW q \in ThreadRec, NEW c \in Places, NEW k \in Nat, NEW y \in Things,
                   NEW u \in Threads
            PROVE  [q EXCEPT !.pc = c, !.node = k, !.type = y, !.scope = u] \in ThreadRec
        BY DEF ThreadRec
      <4>5. [thread[m] EXCEPT !.pc = "replace", !.node = 1, !.type = thread[m].subject,
                              !.scope = etypes[e].nodes[1]] \in ThreadRec
        BY <1>2, <1>3, <1>4, <4>2, <4>3, <4>4
      <4> QED BY <1>2, <1>3, <4>1, <4>5 DEF ThreadRec
    <3> QED BY <3>1, <3>2
  <2> HIDE DEF r
  <2>3. thread' \in [Threads -> ThreadRec] /\ Others(m) /\ thread'[m] = r
    BY <1>2, <2>1, <2>2, MoveFacts
  <2>4. /\ DOMAIN etypes' = DOMAIN etypes
        /\ \A y \in DOMAIN etypes :
             /\ etypes'[y] \in EtypeRec /\ etypes'[y].of = etypes[y].of
             /\ etypes'[y].fits = etypes[y].fits
             /\ etypes'[y].instead = IF y = e THEN x ELSE etypes[y].instead
    <3>1. etypes' = [etypes EXCEPT ![e] = [etypes[e] EXCEPT !.instead = x]]
      BY <2>1
    <3>2. [etypes[e] EXCEPT !.instead = x] \in EtypeRec
      BY <1>4 DEF EtypeRec
    <3>3. \A y \in DOMAIN etypes : etypes[y] \in EtypeRec
      BY <1>2 DEF TypesInv
    <3>4. /\ DOMAIN etypes' = DOMAIN etypes
          /\ \A y \in DOMAIN etypes :
               etypes'[y] = IF y = e THEN [etypes[e] EXCEPT !.instead = x] ELSE etypes[y]
      BY <3>1
    <3>5. /\ [etypes[e] EXCEPT !.instead = x].of = etypes[e].of
          /\ [etypes[e] EXCEPT !.instead = x].fits = etypes[e].fits
          /\ [etypes[e] EXCEPT !.instead = x].instead = x
      BY <1>4 DEF EtypeRec
    <3> QED BY <3>2, <3>3, <3>4, <3>5
  <2>5. Onward(m) /\ HasNoMore(m)
    <3>1. thread[m].at \in Nat
      BY <1>2 DEF ThreadRec
    <3> QED BY <1>1, <1>3, <2>2, <2>3, <3>1 DEF Onward, HasNoMore
  <2>6. Grows => PlaceInv(m)' /\ ReadInv(m)'
    <3>1. thread'[m].pc \in InSet
      BY <2>2, <2>3 DEF InSet
    <3> QED BY <1>1, <1>3, <2>2, <2>3, <3>1, SetterPlace
  <2>7. ~metatypes[m].cleared
    BY <1>1, <1>2 DEF OutcomeInv
  <2>8. SetInv(m)'
    <3>1. TypesOf(m)' = TypesOf(m)
      BY <2>4 DEF TypesOf
    <3>2. ASSUME NEW y \in TypesOf(m) PROVE IsSet(y)' \/ ToBeSet(m, y)'
      <4>1. CASE y = e
        <5>1. x # Nothing
          BY <1>4 DEF LoadInv, BodyInv, Thing, Nothing
        <5> QED BY <1>4, <2>4, <4>1, <5>1 DEF IsSet
      <4>2. CASE y # e /\ IsSet(y)
        BY <2>4, <4>2 DEF IsSet, TypesOf
      <4>3. CASE y # e /\ ~IsSet(y)
        <5>1. PICK k \in DOMAIN metatypes[m].types :
                /\ metatypes[m].types[k] = y
                /\ thread[m].next < k \/ thread[m].next = k
          BY <1>1, <1>2, <4>3 DEF SetInv, ToBeSet
        <5>2. thread[m].next < k /\ k \in Nat
          BY <1>4, <4>3, <5>1
        <5>3. \/ thread'[m].next < k
              \/ thread'[m].next = k /\ thread'[m].pc = "types"
          BY <1>4, <2>2, <2>3, <5>2
        <5> QED BY <2>1, <5>1, <5>3 DEF ToBeSet
      <4> QED BY <4>1, <4>2, <4>3
    <3>3. thread'[m].next # 0 /\ thread'[m].pc \in Makes \cup {"types"}
      BY <1>4, <2>2, <2>3 DEF Makes
    <3>4. thread'[m].pc = "replace" => thread'[m].next \in DOMAIN metatypes'[m].types
      BY <1>4, <2>1, <2>2, <2>3
    <3>5. metatypes'[m].holder = m /\ metatypes'[m].proto = thread'[m].subject
      BY <1>1, <1>2, <1>3, <2>1, <2>2, <2>3 DEF SetInv
    <3> QED BY <3>1, <3>2, <3>3, <3>4, <3>5 DEF SetInv
  <2>9. OutcomeInv(m)'
    <3>1. TypesOf(m)' = TypesOf(m)
      BY <2>4 DEF TypesOf
    <3>2. thread'[m].pc \in Setting /\ thread'[m].pc \notin Over \cup {"end"}
      BY <2>2, <2>3 DEF Setting, Over
    <3> QED BY <1>2, <2>1, <2>7, <3>1, <3>2 DEF OutcomeInv
  <2>10. thread'[m].pc \in Makes \cup {"types"}
    BY <2>2, <2>3 DEF Makes
  <2>11. metatypes' \in Seq(MetatypeRec)
    BY <1>2, <2>1 DEF TypesInv
  <2> QED BY <1>1, <1>4, <2>1, <2>3, <2>4, <2>5, <2>6, <2>7, <2>8, <2>9, <2>10, <2>11, LoadStep
<1> QED
  <2>1. etypes[e].fits \in BOOLEAN
    BY <1>4 DEF EtypeRec
  <2> QED BY <1>5, <1>6, <1>7, <2>1

LEMMA SetEndsKeeps ==
  ASSUME LoadInv, NEW m \in Loaders, SetEnds(m)
  PROVE  LoadInv' /\ Stays /\ Quiet(m)
<1>1. /\ thread[m].pc = "types" /\ thread[m].pc \in Setting
      /\ thread[m].next > Len(metatypes[m].types)
      /\ Go(m, "clear") /\ metatypes' = Unlock(m, NoOne)
      /\ UNCHANGED <<web, registry, etypes, bodies, broke, left, overwritten>>
  BY DEF SetEnds, At, Setting
<1>2. m \in Threads /\ SetInv(m) /\ thread[m] \in ThreadRec
  BY <1>1, LoaderHere
<1>3. /\ metatypes[m].types \in Seq(Things) /\ metatypes[m].proto = thread[m].subject
      /\ thread[m].subject \in DOMAIN bodies /\ thread[m].next \in Nat
  BY <1>1, <1>2, ReplaceFacts
<1>4. \A e : ~ToBeSet(m, e)
  <2>1. DOMAIN metatypes[m].types = 1 .. Len(metatypes[m].types) /\ Len(metatypes[m].types) \in Nat
    BY <1>3, LenProperties
  <2> QED BY <1>1, <1>3, <2>1 DEF ToBeSet
<1>5. metatypes[m].proto # Nothing /\ \A e \in TypesOf(m) : IsSet(e)
  <2>1. Nothing \notin DOMAIN bodies
    BY DEF LoadInv, BodyInv, Thing, Nothing
  <2> QED BY <1>1, <1>2, <1>3, <1>4, <2>1 DEF SetInv
<1> QED BY <1>1, <1>5, EndsKeeps

LEMMA ClearKeeps ==
  ASSUME LoadInv, NEW m \in Loaders, Clear(m)
  PROVE  LoadInv' /\ Stays
<1> DEFINE types == Range(metatypes[m].types)
           waits(e) == etypes[e].instead = Nothing /\ etypes[e].nodes # <<>>
           expired == \E e \in types : ~ScopeLives(e.by)
<1>1. thread[m].pc = "clear"
  BY DEF Clear, At
<1>2. /\ m \in DOMAIN metatypes /\ m \in Threads /\ m \notin Openers /\ m # NoOne /\ TypesInv
      /\ thread[m] \in ThreadRec /\ PlaceInv(m) /\ SetInv(m) /\ OutcomeInv(m)
      /\ metatypes[m] \in MetatypeRec
  BY <1>1, LoaderHere
<1>3. CASE ~MetatypeLives(m)
  <2>1. Break("metatype")
    BY <1>3 DEF Clear
  <2> QED BY <2>1, StutterKeeps DEF Break
<1>4. CASE MetatypeLives(m) /\ expired
  <2>1. Break("expired")
    BY <1>4 DEF Clear
  <2> QED BY <2>1, StutterKeeps DEF Break
<1>5. CASE MetatypeLives(m) /\ ~expired
  <2>1. /\ Free(m)
        /\ metatypes' = [metatypes EXCEPT ![m].types = <<>>, ![m].cleared = TRUE]
        /\ etypes' = [e \in DOMAIN etypes |->
                        [etypes[e] EXCEPT !.nodes = IF e \in types THEN <<>> ELSE @]]
        /\ left' = left \cup (IF \E e \in types : waits(e) THEN {m} ELSE {})
        /\ GoWith(m, "end", Nothing)
        /\ UNCHANGED <<web, registry, bodies, broke, overwritten>>
    BY <1>5 DEF Clear
  <2>2. /\ thread' \in [Threads -> ThreadRec] /\ Others(m)
        /\ thread'[m].pc = "end" /\ thread'[m].at = thread[m].at
        /\ thread'[m].known = thread[m].known /\ thread'[m].type = thread[m].type
        /\ thread'[m].subject = Nothing
    <3>1. "end" \in Places /\ Nothing \in Things
      BY ThingFacts DEF Places
    <3> QED BY <1>2, <2>1, <3>1, GoFacts
  <2>3. /\ metatypes' \in Seq(MetatypeRec) /\ Len(metatypes') = Len(metatypes)
        /\ metatypes'[m].wants = metatypes[m].wants /\ metatypes'[m].types = <<>>
        /\ metatypes'[m].cleared = TRUE
        /\ metatypes'[m].holder = NoOne /\ metatypes'[m].proto = metatypes[m].proto
        /\ \A n \in DOMAIN metatypes : n # m => metatypes'[n] = metatypes[n]
    <3>1. metatypes' = [metatypes EXCEPT ![m] = [metatypes[m] EXCEPT !.types = <<>>, !.cleared = TRUE]]
      BY <2>1
    <3>2. [metatypes[m] EXCEPT !.types = <<>>, !.cleared = TRUE] \in MetatypeRec
      <4>1. <<>> \in Seq(Things)
        BY EmptySeq
      <4> QED BY <1>2, <4>1 DEF MetatypeRec
    <3>3. /\ DOMAIN metatypes = 1 .. Len(metatypes) /\ Len(metatypes) \in Nat
          /\ \A n \in DOMAIN metatypes : metatypes[n] \in MetatypeRec
      BY <1>2, Typed
    <3>4. metatypes' \in [1 .. Len(metatypes) -> MetatypeRec]
      BY <3>1, <3>2, <3>3
    <3>5. metatypes' \in Seq(MetatypeRec) /\ Len(metatypes') = Len(metatypes)
      BY <3>3, <3>4, SeqOfFunction
    <3>6. /\ metatypes'[m] = [metatypes[m] EXCEPT !.types = <<>>, !.cleared = TRUE]
          /\ \A n \in DOMAIN metatypes : n # m => metatypes'[n] = metatypes[n]
      BY <1>2, <3>1
    <3> QED BY <1>2, <2>1, <3>5, <3>6 DEF MetatypeRec, Free
  <2>4. /\ DOMAIN etypes' = DOMAIN etypes
        /\ \A e \in DOMAIN etypes :
             /\ etypes'[e] \in EtypeRec /\ etypes'[e].of = etypes[e].of
             /\ etypes'[e].fits = etypes[e].fits /\ etypes'[e].instead = etypes[e].instead
    <3> DEFINE nodes(e) == IF e \in types THEN <<>> ELSE etypes[e].nodes
    <3>1. \A e \in DOMAIN etypes : etypes[e] \in EtypeRec /\ nodes(e) \in Seq(Threads)
      <4>1. <<>> \in Seq(Threads)
        BY EmptySeq
      <4> QED BY <1>2, <4>1 DEF TypesInv, EtypeRec
    <3>2. \A e \in DOMAIN etypes : etypes'[e] = [etypes[e] EXCEPT !.nodes = nodes(e)]
      BY <2>1
    <3> HIDE DEF nodes
    <3>3. DOMAIN etypes' = DOMAIN etypes
      BY <2>1
    <3> QED BY <3>1, <3>2, <3>3 DEF EtypeRec
  <2>5. Onward(m) /\ HasNoMore(m)
    <3>1. thread[m].at \in Nat
      BY <1>2 DEF ThreadRec
    <3> QED BY <1>1, <2>2, <3>1 DEF Onward, HasNoMore, InSet
  <2>6. Grows => PlaceInv(m)' /\ ReadInv(m)'
    BY <1>1, <1>2, <2>2, FileLeft
  <2>7. SetInv(m)'
    BY <2>2, <2>3 DEF SetInv, Setting
  <2>8. ASSUME Grows, DeadStays PROVE OutcomeInv(m)'
    <3>1. TypesOf(m)' = TypesOf(m) /\ \A e \in TypesOf(m) : IsSet(e)' = IsSet(e)
      BY <2>4 DEF TypesOf, IsSet
    <3>2. Excused(m) => Excused(m)'
      BY <1>2, <2>1, <2>3, <2>8, ExcusesStay
    <3>3. m \in left' => Excused(m)
      <4>1. m \in left => Excused(m)
        BY <1>2 DEF OutcomeInv
      <4>2. (\E e \in types : waits(e)) => Excused(m)
        <5>1. \A e \in types : e \in TypesOf(m)
          BY <1>2 DEF OutcomeInv, Range
        <5> QED BY <1>1, <1>2, <5>1 DEF OutcomeInv, IsSet, Over
      <4> QED BY <2>1, <4>1, <4>2
    <3>4. Excused(m) \/ (metatypes[m].proto # Nothing /\ \A e \in TypesOf(m) : IsSet(e))
      BY <1>1, <1>2 DEF OutcomeInv, Over
    <3>5. DOMAIN metatypes'[m].types = {}
      BY <2>3, EmptySeq
    <3>6. metatypes[m].proto = Nothing \/ metatypes[m].proto \in DOMAIN bodies
      BY <1>2 DEF OutcomeInv
    <3> QED BY <2>1, <2>2, <2>3, <3>1, <3>2, <3>3, <3>4, <3>5, <3>6 DEF OutcomeInv, Over
  <2>9. left' \subseteq left \cup {m}
    BY <2>1
  <2> QED BY <1>1, <2>1, <2>2, <2>3, <2>4, <2>5, <2>6, <2>7, <2>8, <2>9, LoadStep
<1> QED BY <1>3, <1>4, <1>5

-----------------------------------------------------------------------------
(* The specification. *)

LEMMA LoadInit == ExternprotoInit => LoadInv
<1> SUFFICES ASSUME ExternprotoInit PROVE LoadInv
  OBVIOUS
<1>1. /\ web \in Webs /\ thread = [t \in Threads |-> Started(t)] /\ left = {} /\ overwritten = {}
      /\ registry = <<>> /\ metatypes = <<>> /\ etypes = <<>> /\ bodies = <<>> /\ broke = "nothing"
  BY DEF ExternprotoInit
<1>2. DOMAIN <<>> = {} /\ Len(<<>>) = 0 /\ <<>> \in Seq(MetatypeRec)
  BY EmptySeq
<1>3. /\ DOMAIN registry = {} /\ DOMAIN metatypes = {} /\ DOMAIN etypes = {} /\ DOMAIN bodies = {}
  BY <1>1, <1>2
<1>4. /\ DOMAIN web.opened \subseteq Openers /\ web.most \in Nat
      /\ \A t \in DOMAIN web.opened : /\ web.opened[t] \in DOMAIN web.files
                                     /\ web.files[web.opened[t]][1].kind = "extern"
  BY <1>1, ExternprotoAssumption DEF Range
<1>5. ASSUME NEW t \in Threads
      PROVE  /\ thread[t] \in ThreadRec /\ thread[t].at = 1 /\ thread[t].known = <<>>
             /\ thread[t].type = Nothing
             /\ thread[t].pc = IF t \in DOMAIN web.opened THEN "extern" ELSE "idle"
  <2> DEFINE idle == [pc |-> "idle", at |-> 1, known |-> <<>>, subject |-> Nothing, type |-> Nothing,
                      scope |-> t, next |-> 0, node |-> 0]
  <2>1. thread[t] = IF t \in DOMAIN web.opened THEN [idle EXCEPT !.pc = "extern"] ELSE idle
    BY <1>1, <1>4 DEF Started
  <2>2. <<>> \in Known /\ Nothing \in Things /\ "idle" \in Places /\ "extern" \in Places
    BY KnownFacts, ThingFacts DEF Places, InParse
  <2>3. idle \in ThreadRec /\ [idle EXCEPT !.pc = "extern"] \in ThreadRec
    BY <2>2 DEF ThreadRec
  <2> QED BY <2>1, <2>3
<1>6. TypesInv
  <2>1. thread \in [Threads -> ThreadRec]
    BY <1>1, <1>5
  <2>2. Len(metatypes) <= web.most
    BY <1>1, <1>2, <1>4
  <2> QED BY <1>1, <1>2, <1>3, <2>1, <2>2 DEF TypesInv
<1>7. ASSUME NEW t \in Threads PROVE PlaceInv(t) /\ ReadInv(t)
  <2>1. ValidType(thread[t].type) /\ \A n \in DOMAIN thread[t].known : ValidType(thread[t].known[n])
    BY <1>2, <1>5 DEF ValidType
  <2>2. CASE t \in DOMAIN web.opened
    <3>1. thread[t].pc = "extern" /\ thread[t].at = 1 /\ t \in Openers /\ t \notin Loaders
      BY <1>4, <1>5, <2>2, NumbersAreNotOpeners
    <3>2. Url(t) = <<web.opened[t]>> /\ FileOf(Url(t)) \in DOMAIN web.files
          /\ StatementsOf(t) = web.files[web.opened[t]]
      BY <1>4, <2>2, <3>1 DEF Url, FileOf, StatementsOf
    <3>3. /\ DOMAIN StatementsOf(t) = 1 .. Len(StatementsOf(t)) /\ Len(StatementsOf(t)) \in Nat \ {0}
      BY <1>1, <1>4, <2>2, <3>2, FileFacts
    <3>4. /\ thread[t].at \in DOMAIN StatementsOf(t)
          /\ "extern" \in PlacesOf(StatementAt(t).kind)
      BY <1>4, <2>2, <3>1, <3>2, <3>3 DEF StatementAt, PlacesOf
    <3>5. \A i \in DOMAIN StatementsOf(t) : ~Finished(t, i) /\ ~(i < thread[t].at)
      BY <3>1, <3>3 DEF Finished
    <3>6. "extern" \notin {"idle", "fetch", "find", "clear", "id", "url", "type", "check", "first"}
                          \cup InSet
      BY DEF InSet
    <3> QED BY <2>1, <2>2, <3>1, <3>2, <3>4, <3>5, <3>6 DEF PlaceInv, ReadInv
  <2>3. CASE t \notin DOMAIN web.opened
    <3>1. thread[t].pc = "idle" /\ thread[t].at = 1
      BY <1>5, <2>3
    <3>2. "idle" \notin {"fetch", "find", "clear", "id", "url", "type", "check", "first"}
                        \cup InSet \cup InParse \cup Reading
      BY DEF InSet, InParse, Reading
    <3> QED BY <1>3, <2>1, <2>3, <3>1, <3>2 DEF PlaceInv, ReadInv
  <2> QED BY <2>2, <2>3
<1> QED BY <1>3, <1>6, <1>7 DEF LoadInv

LEMMA LoadStepKeeps == LoadInv /\ [ExternprotoNext]_epVars => LoadInv' /\ Stays
<1> SUFFICES ASSUME LoadInv, [ExternprotoNext]_epVars PROVE LoadInv' /\ Stays
  OBVIOUS
<1>1. ASSUME NEW t \in Threads, ParserStep(t) PROVE LoadInv' /\ Stays
  <2>1. CASE MakeBuiltIn(t)
    BY <2>1, MakeBuiltInKeeps
  <2>2. CASE MakeInstance(t)
    BY <2>2, MakeInstanceKeeps
  <2>3. CASE MakeExtern(t)
    BY <2>3, MakeExternKeeps
  <2>4. CASE Find(t)
    BY <2>4, FindKnownKeeps, FindNewKeeps
  <2>5. CASE RegisterId(t)
    BY <2>5, RegisterIdKeeps
  <2>6. CASE RegisterUrl(t)
    BY <2>6, RegisterUrlKeeps
  <2>7. CASE NewType(t)
    BY <2>7, NewTypeKeeps, KnownTypeKeeps
  <2>8. CASE FinishProto(t)
    BY <2>8, FinishProtoKeeps
  <2>9. CASE CheckFirst(t)
    BY <2>9, CheckFirstKeeps
  <2>10. CASE RegisterFirst(t)
    BY <2>10, RegisterFirstKeeps
  <2> QED BY <1>1, <2>1, <2>2, <2>3, <2>4, <2>5, <2>6, <2>7, <2>8, <2>9, <2>10 DEF ParserStep
<1>2. ASSUME NEW m \in Loaders, LoaderStep(m) PROVE LoadInv' /\ Stays
  BY <1>2, FetchKeeps, FindProtoKeeps, SetProtoKeeps, SetTypeKeeps, SetEndsKeeps, ClearKeeps
    DEF LoaderStep
<1>3. CASE UNCHANGED epVars
  <2>1. broke' \in {"nothing", "proto", "metatype", "expired"}
    BY <1>3 DEF epVars, LoadInv, TypesInv
  <2> QED BY <1>3, <2>1, StutterKeeps DEF epVars
<1> QED BY <1>1, <1>2, <1>3 DEF ExternprotoNext

(* What each thread, type, PROTO and metatype of a load is like, in every  *)
(* order in which parsers and load threads run (parse_vrml.h,              *)
(* externproto.cpp): the inductive invariant.                              *)
THEOREM LoadsGoWell == ExternprotoSpec => []LoadInv
  BY LoadInit, LoadStepKeeps, PTL DEF ExternprotoSpec

(* Every variable of the load of EXTERNPROTOs has its type: threads are at *)
(* places of the parser or of load_proto, the registry has metatypes and   *)
(* PROTOs, and a metatype's mutex is held only by a thread that makes or   *)
(* replaces a node.                                                        *)
THEOREM ExternprotoTypes == ExternprotoSpec => []ExternprotoTypeOK
<1>1. LoadInv => ExternprotoTypeOK
  <2> SUFFICES ASSUME LoadInv PROVE ExternprotoTypeOK
    OBVIOUS
  <2>1. TypesInv
    BY DEF LoadInv
  <2>2. \A t \in Threads : thread[t].pc \in Places /\ thread[t].scope \in Threads
    BY <2>1 DEF TypesInv, ThreadRec
  <2>3. \A u \in DOMAIN registry : registry[u].kind \in {"metatype", "proto"}
    BY RegistryFacts
  <2>4. \A m \in DOMAIN metatypes :
          metatypes[m].holder # NoOne =>
            thread[metatypes[m].holder].pc \in {"node", "proto", "types", "replace"}
    BY DEF LoadInv, SetInv, Makes
  <2>5. \A e \in DOMAIN etypes : etypes[e].of \in DOMAIN metatypes
    BY DEF LoadInv, EtypeInv
  <2> QED BY <2>1, <2>2, <2>3, <2>4, <2>5 DEF TypesInv, ExternprotoTypeOK
<1> QED BY <1>1, LoadsGoWell, PTL

(* However parsers and load threads race, every node of an EXTERNPROTO     *)
(* that is made before its PROTO is there is replaced when it is           *)
(* (set_proto_node_metatype), and one that is made later is an instance of *)
(* the PROTO; if nodes are left, there is no such PROTO, its registration  *)
(* was overwritten, it was freed, or declarations do not fit.              *)
THEOREM NodesGetReplaced == ExternprotoSpec => []NodesAreReplaced
<1>1. LoadInv => NodesAreReplaced
  BY DEF LoadInv, TypesInv, OutcomeInv, Excused, NodesAreReplaced
<1> QED BY <1>1, LoadsGoWell, PTL

-----------------------------------------------------------------------------
(* The PROTO that a URL means.  Where every URL is that of a file, or      *)
(* names a PROTO that is not nested, the registry has a right PROTO for    *)
(* it, or a metatype that looks for it, as long as nothing is overwritten. *)

Ordinary ==
  /\ \A s \in Declarations : s.url = s.wants /\ ~(web.fragments /\ Len(s.url) > 1) /\ ~IsId(s.url)
  /\ \A f \in DOMAIN web.files : \A s \in Those(f, "proto") : s.within = << >>

Right(url, p) == p \in DOMAIN bodies /\ (Means(url, p) \/ url \in overwritten)
RegistryRight(u) ==
  /\ IsProto(u) => Right(u, registry[u])
  /\ \A m \in DOMAIN metatypes : registry[u] = Metatype(m) => metatypes[m].wants = u \/ IsId(u)

\* A thread has at hand what the URL of its EXTERNPROTO, stream or metatype means.
HandRight(t) ==
  /\ thread[t].pc \in {"id", "url", "type"} =>
       \A m \in DOMAIN metatypes :
         thread[t].subject = Metatype(m) => metatypes[m].wants = StatementAt(t).url
  /\ thread[t].pc = "first" => Right(Url(t), thread[t].subject)
  /\ thread[t].pc \in InSet => Right(metatypes[t].wants, thread[t].subject)

\* The scope of t's file knows each EXTERNPROTO that was read as what its URL means.
Knows(t, s, x) ==
  \/ Right(s.url, x)
  \/ /\ x = Thing("extern", t, <<s.name>>) /\ x \in DOMAIN etypes
     /\ metatypes[etypes[x].of].wants = s.url
KnownRight(t) ==
  Opens(t) =>
    /\ thread[t].at <= Len(StatementsOf(t)) + 1
    /\ \A i \in DOMAIN StatementsOf(t) :
         i < thread[t].at /\ StatementsOf(t)[i].kind = "extern" =>
           /\ StatementsOf(t)[i].name \in DOMAIN thread[t].known
           /\ Knows(t, StatementsOf(t)[i], thread[t].known[StatementsOf(t)[i].name])
LoadRight(m) ==
  /\ \E s \in Declarations : metatypes[m].wants = s.url
  /\ metatypes[m].proto # Nothing => Right(metatypes[m].wants, metatypes[m].proto)
TypeRight(e) ==
  etypes[e].instead # Nothing => Right(metatypes[etypes[e].of].wants, etypes[e].instead)

RightParts ==
  /\ \A u \in DOMAIN registry : RegistryRight(u)
  /\ \A t \in Threads : HandRight(t) /\ KnownRight(t)
  /\ \A m \in DOMAIN metatypes : LoadRight(m)
  /\ \A e \in DOMAIN etypes : TypeRight(e)
RightInv == Ordinary => RightParts

\* A step of which the invariant of the loads is known.
Step == LoadInv /\ LoadInv' /\ Stays /\ Ordinary /\ RightParts

\* The files stay.
LEMMA WebStays ==
  ASSUME Stays
  PROVE  /\ Ordinary' <=> Ordinary
         /\ \A u : IsId(u)' <=> IsId(u)
         /\ Declarations' = Declarations
<1>1. web' = web
  BY DEF Stays, Grows
<1>2. \A f, kind : Those(f, kind)' = Those(f, kind)
  BY <1>1 DEF Those
<1>3. \A u : IsId(u)' <=> IsId(u)
  BY <1>1, <1>2 DEF IsId
<1>4. Declarations' = Declarations
  BY <1>1, <1>2 DEF Declarations
<1> QED BY <1>1, <1>2, <1>3, <1>4 DEF Ordinary

\* The PROTO is right still.
LEMMA RightStays ==
  ASSUME LoadInv, Stays
  PROVE  \A url, p : Right(url, p) => Right(url, p)'
<1> SUFFICES ASSUME NEW url, NEW p, Right(url, p) PROVE Right(url, p)'
  OBVIOUS
<1>1. p \in DOMAIN bodies /\ BodyInv(p)
  BY DEF Right, LoadInv
<1>2. p.by \in Threads /\ PlaceInv(p.by) /\ Opens(p.by)
  BY <1>1 DEF BodyInv, LoadInv
<1>3. p.by \in Openers \/ p.by \in DOMAIN metatypes
  BY <1>2 DEF PlaceInv, Opens, Threads
<1>4. Url(p.by)' = Url(p.by) /\ web' = web
  BY <1>2, <1>3, UrlsStay DEF Stays, Grows
<1>5. Means(url, p) => Means(url, p)'
  BY <1>4 DEF Means, FileOf
<1> QED BY <1>1, <1>5 DEF Right, Stays, Grows

LEMMA KnowsStays ==
  ASSUME LoadInv, Stays
  PROVE  \A t, s, x : Knows(t, s, x) => Knows(t, s, x)'
<1> SUFFICES ASSUME NEW t, NEW s, NEW x, Knows(t, s, x) PROVE Knows(t, s, x)'
  OBVIOUS
<1>1. CASE Right(s.url, x)
  BY <1>1, RightStays DEF Knows
<1>2. CASE /\ x = Thing("extern", t, <<s.name>>) /\ x \in DOMAIN etypes
           /\ metatypes[etypes[x].of].wants = s.url
  <2>1. etypes[x].of \in DOMAIN metatypes
    BY <1>2 DEF LoadInv, EtypeInv
  <2> QED BY <1>2, <2>1 DEF Knows, Stays, Grows
<1> QED BY <1>1, <1>2 DEF Knows

\* The file of a thread that has opened it.
LEMMA OpensFacts ==
  ASSUME LoadInv, NEW t \in Threads, Opens(t)
  PROVE  /\ t \in Openers \/ t \in DOMAIN metatypes
         /\ Len(StatementsOf(t)) \in Nat /\ DOMAIN StatementsOf(t) = 1 .. Len(StatementsOf(t))
         /\ thread[t].at \in Nat
         /\ \A i \in DOMAIN StatementsOf(t) : StatementsOf(t)[i] \in Range(web.files[FileOf(Url(t))])
<1>1. PlaceInv(t) /\ TypesInv
  BY DEF LoadInv
<1>2. t \in Openers \/ t \in DOMAIN metatypes
  BY <1>1 DEF PlaceInv, Opens, Threads
<1>3. FileOf(Url(t)) \in DOMAIN web.files /\ web \in Webs
  BY <1>1 DEF Opens, TypesInv
<1>4. thread[t].at \in Nat
  BY <1>1 DEF TypesInv, ThreadRec
<1> QED BY <1>2, <1>3, <1>4, FileFacts DEF StatementsOf

\* A thread that knows what it knew.
LEMMA SameKnown ==
  ASSUME LoadInv, Stays, NEW t \in Threads, KnownRight(t),
         thread'[t].at = thread[t].at, thread'[t].known = thread[t].known,
         thread'[t].pc \notin {"idle", "fetch"} => thread[t].pc \notin {"idle", "fetch"}
  PROVE  KnownRight(t)'
<1> SUFFICES ASSUME Opens(t)' PROVE KnownRight(t)'
  BY DEF KnownRight
<1>1. thread[t].pc \notin {"idle", "fetch"}
  BY DEF Opens
<1>2. t \in Openers \/ t \in DOMAIN metatypes
  BY <1>1 DEF LoadInv, PlaceInv, Threads
<1>3. Url(t)' = Url(t) /\ StatementsOf(t)' = StatementsOf(t)
  BY <1>2, UrlsStay DEF Stays
<1>4. FileOf(Url(t)) \in DOMAIN web.files
  <2>1. web' = web /\ FileOf(Url(t))' = FileOf(Url(t))
    BY <1>3 DEF Stays, Grows, FileOf
  <2> QED BY <2>1 DEF Opens
<1>5. Opens(t)
  BY <1>1, <1>4 DEF Opens
<1>6. \A s, x : Knows(t, s, x) => Knows(t, s, x)'
  BY KnowsStays
<1> QED BY <1>3, <1>5, <1>6 DEF KnownRight

\* A thread that has at hand what it had.
LEMMA SameHand ==
  ASSUME LoadInv, Stays, NEW t \in Threads, HandRight(t), thread[t].pc # "idle",
         thread'[t].at = thread[t].at, thread'[t].subject = thread[t].subject,
         \/ thread'[t].pc = thread[t].pc
         \/ {thread[t].pc, thread'[t].pc} \subseteq InSet
         \/ {thread[t].pc, thread'[t].pc} \subseteq {"id", "url", "type"}
         \/ thread'[t].pc \notin {"id", "url", "type", "first"} \cup InSet
  PROVE  HandRight(t)'
<1>1. PlaceInv(t) /\ TypesInv
  BY DEF LoadInv
<1>2. t \in Openers \/ t \in DOMAIN metatypes
  BY <1>1 DEF PlaceInv, Threads
<1>3. Url(t)' = Url(t) /\ StatementsOf(t)' = StatementsOf(t)
  BY <1>2, UrlsStay DEF Stays
<1>4. StatementAt(t)' = StatementAt(t)
  BY <1>3 DEF StatementAt
<1>5. {"id", "url", "type", "first"} \cap InSet = {}
  BY DEF InSet
<1>6. ASSUME thread'[t].pc \in {"id", "url", "type"}, NEW m \in DOMAIN metatypes',
             thread'[t].subject = Metatype(m)
      PROVE  metatypes'[m].wants = StatementAt(t)'.url
  <2>1. thread[t].pc \in {"id", "url", "type"}
    BY <1>5, <1>6
  <2>2. PICK n \in DOMAIN metatypes : thread[t].subject = Metatype(n)
    BY <1>1, <2>1 DEF PlaceInv
  <2>3. m = n
    <3>1. Metatype(m) = Metatype(n)
      BY <1>6, <2>2
    <3> QED BY <3>1 DEF Metatype, Thing
  <2>4. metatypes[n].wants = StatementAt(t).url
    BY <2>1, <2>2 DEF HandRight
  <2> QED BY <1>4, <2>2, <2>3, <2>4 DEF Stays, Grows
<1>7. ASSUME thread'[t].pc = "first" PROVE Right(Url(t), thread[t].subject)'
  <2>1. Right(Url(t), thread[t].subject)
    BY <1>5, <1>7 DEF HandRight
  <2>2. \A u, p : Right(u, p) => Right(u, p)'
    BY RightStays
  <2>3. \A u, p : u = Url(t) /\ p = thread[t].subject => Right(u, p)'
    BY <2>1, <2>2
  <2> QED BY <1>3, <2>3
<1>8. ASSUME thread'[t].pc \in InSet PROVE Right(metatypes[t].wants, thread[t].subject)'
  <2>1. thread[t].pc \in InSet
    BY <1>5, <1>8
  <2>2. Right(metatypes[t].wants, thread[t].subject) /\ t \in DOMAIN metatypes
    BY <1>1, <1>2, <2>1 DEF HandRight, PlaceInv
  <2>3. \A u, p : Right(u, p) => Right(u, p)'
    BY RightStays
  <2>4. \A u, p : u = metatypes[t].wants /\ p = thread[t].subject => Right(u, p)'
    BY <2>2, <2>3
  <2>5. metatypes'[t].wants = metatypes[t].wants
    BY <2>2 DEF Stays, Grows
  <2> QED BY <2>4, <2>5
<1> QED BY <1>6, <1>7, <1>8 DEF HandRight

\* A thread that does not move.
LEMMA SameThread ==
  ASSUME Step, NEW t \in Threads, thread'[t] = thread[t]
  PROVE  HandRight(t)' /\ KnownRight(t)'
<1>1. HandRight(t) /\ KnownRight(t) /\ LoadInv /\ Stays
  BY DEF Step, RightParts
<1>2. KnownRight(t)'
  BY <1>1, SameKnown
<1>3. CASE thread[t].pc = "idle"
  BY <1>3, <1>2 DEF HandRight, InSet
<1>4. CASE thread[t].pc # "idle"
  BY <1>1, <1>2, <1>4, SameHand
<1> QED BY <1>3, <1>4

LEMMA RightStep ==
  ASSUME Step,
         \A t \in Threads : thread'[t] = thread[t] \/ (HandRight(t)' /\ KnownRight(t)'),
         \A u \in DOMAIN registry' :
           (u \in DOMAIN registry /\ registry'[u] = registry[u]) \/ RegistryRight(u)',
         \A m \in DOMAIN metatypes' :
           (m \in DOMAIN metatypes /\ metatypes'[m].proto = metatypes[m].proto) \/ LoadRight(m)',
         \A e \in DOMAIN etypes' :
           (e \in DOMAIN etypes /\ etypes'[e].instead = etypes[e].instead) \/ TypeRight(e)'
  PROVE  RightParts'
<1>1. \A t \in Threads : HandRight(t)' /\ KnownRight(t)'
  BY SameThread
<1>2. /\ LoadInv /\ Stays /\ \A u : IsId(u)' <=> IsId(u)
      /\ \A u, p : Right(u, p) => Right(u, p)'
      /\ Declarations' = Declarations
  BY RightStays, WebStays DEF Step
<1>3. ASSUME NEW u \in DOMAIN registry, registry'[u] = registry[u], u \in DOMAIN registry'
      PROVE  RegistryRight(u)'
  <2>1. RegistryRight(u)
    BY DEF Step, RightParts
  <2>2. ASSUME IsProto(u)' PROVE Right(u, registry[u])'
    <3>1. IsProto(u)
      BY <1>3, <2>2 DEF IsProto
    <3>2. Right(u, registry[u])
      BY <2>1, <3>1 DEF RegistryRight
    <3>3. \A p : p = registry[u] => Right(u, p)'
      BY <3>2, <1>2
    <3> QED BY <3>3, <1>3
  <2>3. ASSUME NEW m \in DOMAIN metatypes', registry[u] = Metatype(m)
        PROVE  metatypes'[m].wants = u \/ IsId(u)'
    <3>1. PICK n \in DOMAIN metatypes : registry[u] = Metatype(n)
      <4>1. registry[u].kind = "metatype"
        BY <2>3 DEF Metatype, Thing
      <4> QED BY <4>1, <1>2, RegistryFacts
    <3>2. n = m
      BY <2>3, <3>1 DEF Metatype, Thing
    <3> QED BY <2>1, <2>3, <3>1, <3>2, <1>2 DEF RegistryRight, Stays, Grows
  <2>4. \A m : Metatype(m)' = Metatype(m)
    BY DEF Metatype
  <2> QED BY <2>2, <2>3, <2>4, <1>3 DEF RegistryRight
<1>4. ASSUME NEW m \in DOMAIN metatypes, metatypes'[m].proto = metatypes[m].proto
      PROVE  LoadRight(m)'
  <2>1. LoadRight(m) /\ metatypes'[m].wants = metatypes[m].wants
    BY <1>2 DEF Step, RightParts, Stays, Grows
  <2>2. ASSUME metatypes[m].proto # Nothing
        PROVE  Right(metatypes[m].wants, metatypes[m].proto)'
    <3>1. \A u, p : u = metatypes[m].wants /\ p = metatypes[m].proto => Right(u, p)'
      BY <1>2, <2>1, <2>2 DEF LoadRight
    <3> QED BY <3>1, <2>1, <1>4
  <2> QED BY <2>1, <2>2, <1>2, <1>4 DEF LoadRight
<1>5. ASSUME NEW e \in DOMAIN etypes, etypes'[e].instead = etypes[e].instead
      PROVE  TypeRight(e)'
  <2>1. /\ TypeRight(e) /\ etypes'[e].of = etypes[e].of
        /\ metatypes'[etypes[e].of].wants = metatypes[etypes[e].of].wants
    <3>1. etypes[e].of \in DOMAIN metatypes
      BY <1>2 DEF LoadInv, EtypeInv
    <3> QED BY <3>1, <1>2 DEF Step, RightParts, Stays, Grows
  <2>2. ASSUME etypes[e].instead # Nothing
        PROVE  Right(metatypes[etypes[e].of].wants, etypes[e].instead)'
    <3>1. \A u, p : u = metatypes[etypes[e].of].wants /\ p = etypes[e].instead => Right(u, p)'
      BY <1>2, <2>1, <2>2 DEF TypeRight
    <3> QED BY <3>1, <2>1, <1>5
  <2> QED BY <2>1, <2>2, <1>5 DEF TypeRight
<1> QED BY <1>1, <1>3, <1>4, <1>5 DEF RightParts

LEMMA QuietRight ==
  ASSUME Step, NEW t \in Threads, Quiet(t),
         thread'[t] = thread[t] \/ (HandRight(t)' /\ KnownRight(t)')
  PROVE  RightParts'
<1>1. \A u \in Threads : thread'[u] = thread[u] \/ (HandRight(u)' /\ KnownRight(u)')
  BY DEF Quiet, Others
<1> QED BY <1>1, RightStep DEF Quiet

\* The URL of a stream, where no URL has a fragment that is kept.
LEMMA PlainUrl ==
  ASSUME LoadInv, Ordinary, RightParts, NEW t \in Threads, t \in Openers \/ t \in DOMAIN metatypes
  PROVE  Url(t) = <<FileOf(Url(t))>>
<1>1. CASE t \in Openers
  BY <1>1 DEF Url, FileOf
<1>2. CASE t \notin Openers /\ ~web.fragments
  BY <1>2 DEF Url, FileOf
<1>3. CASE t \notin Openers /\ web.fragments
  <2>1. PICK s \in Declarations : metatypes[t].wants = s.url
    BY <1>3 DEF RightParts, LoadRight
  <2>2. ~(Len(s.url) > 1)
    BY <1>3 DEF Ordinary
  <2>3. s \in Statements /\ s.kind = "extern"
    BY DEF Declarations, Those, Statements, LoadInv, TypesInv
  <2>4. PICK u : u = s.url
    OBVIOUS
  <2>5. u \in Seq(Range(u)) /\ u # <<>> /\ Url(t) = u /\ ~(Len(u) > 1)
    BY <1>3, <2>1, <2>2, <2>3, <2>4, StatementFacts DEF Url
  <2>6. Len(u) = 1
    <3>1. Len(u) \in Nat /\ Len(u) # 0
      BY <2>5, LenProperties, EmptySeq
    <3>2. \A n \in Nat : n # 0 /\ ~(n > 1) => n = 1
      OBVIOUS
    <3> QED BY <2>5, <3>1, <3>2
  <2>7. u = <<u[1]>>
    BY <2>5, <2>6
  <2> QED BY <2>5, <2>7 DEF FileOf
<1> QED BY <1>1, <1>2, <1>3

\* A parser is at a statement, of which it knows the file and the scope.
LEMMA RightHere ==
  ASSUME Step, NEW t \in Threads, thread[t].pc \in InParse
  PROVE  /\ LoadInv /\ Stays /\ Opens(t) /\ HandRight(t) /\ KnownRight(t) /\ TypesInv
         /\ t \in Openers \/ t \in DOMAIN metatypes
         /\ Url(t)' = Url(t) /\ StatementsOf(t)' = StatementsOf(t) /\ Url(t) = <<FileOf(Url(t))>>
         /\ thread[t] \in ThreadRec /\ thread[t].at \in DOMAIN StatementsOf(t)
         /\ StatementAt(t).kind = "extern" =>
              /\ StatementAt(t) \in Declarations /\ StatementAt(t).name \in Names
              /\ StatementAt(t).url = StatementAt(t).wants /\ ~IsId(StatementAt(t).url)
         /\ StatementAt(t).kind = "proto" =>
              StatementAt(t).within = << >> /\ Path(StatementAt(t)) = <<StatementAt(t).name>>
<1>1. LoadInv /\ Stays /\ HandRight(t) /\ KnownRight(t) /\ TypesInv /\ Ordinary /\ RightParts
  BY DEF Step, RightParts, LoadInv
<1>2. /\ StatementAt(t) \in Range(web.files[FileOf(Url(t))]) /\ FileOf(Url(t)) \in DOMAIN web.files
      /\ StatementAt(t) \in Statements
      /\ thread[t].at \in DOMAIN StatementsOf(t) /\ thread[t] \in ThreadRec
      /\ t \in Openers \/ t \in DOMAIN metatypes
  BY <1>1, StatementHere DEF Threads
<1>3. Opens(t)
  BY <1>2 DEF Opens, InParse
<1>4. Url(t)' = Url(t) /\ StatementsOf(t)' = StatementsOf(t)
  BY <1>1, <1>2, UrlsStay DEF Stays
<1>5. Url(t) = <<FileOf(Url(t))>>
  BY <1>1, <1>2, PlainUrl
<1>6. StatementAt(t).kind = "extern" =>
        /\ StatementAt(t) \in Declarations /\ StatementAt(t).name \in Names
        /\ StatementAt(t).url = StatementAt(t).wants /\ ~IsId(StatementAt(t).url)
  BY <1>1, <1>2, StatementFacts DEF Ordinary, Declarations, Those
<1>7. StatementAt(t).kind = "proto" =>
        StatementAt(t).within = << >> /\ Path(StatementAt(t)) = <<StatementAt(t).name>>
  <2> SUFFICES ASSUME StatementAt(t).kind = "proto"
               PROVE  StatementAt(t).within = << >> /\ Path(StatementAt(t)) = <<StatementAt(t).name>>
    OBVIOUS
  <2>1. StatementAt(t).within = << >>
    BY <1>1, <1>2 DEF Ordinary, Those
  <2>2. Append(<< >>, StatementAt(t).name) = <<StatementAt(t).name>>
    OBVIOUS
  <2> QED BY <2>1, <2>2 DEF Path
<1> QED BY <1>1, <1>2, <1>3, <1>4, <1>5, <1>6, <1>7

(* A statement is over: what it declares is known by its name, and no      *)
(* other statement has the name.                                           *)
LEMMA FollowRight ==
  ASSUME Step, NEW t \in Threads, thread[t].pc \in InParse, NEW known \in Known, Follow(t, known),
         \A n \in DOMAIN thread[t].known :
           /\ n \in DOMAIN known
           /\ \/ known[n] = thread[t].known[n]
              \/ StatementAt(t).kind # "node" /\ n = StatementAt(t).name,
         StatementAt(t).kind = "extern" =>
           /\ StatementAt(t).name \in DOMAIN known
           /\ \A s : s = StatementAt(t) => Knows(t, s, known[s.name])'
  PROVE  HandRight(t)' /\ KnownRight(t)'
<1>1. /\ LoadInv /\ Stays /\ Opens(t) /\ KnownRight(t) /\ TypesInv
      /\ Url(t)' = Url(t) /\ StatementsOf(t)' = StatementsOf(t)
      /\ thread[t].at \in DOMAIN StatementsOf(t)
      /\ StatementAt(t).kind = "proto" => Path(StatementAt(t)) = <<StatementAt(t).name>>
  BY RightHere
<1>2. /\ thread'[t].at = thread[t].at + 1 /\ thread'[t].known = known
      /\ thread'[t].pc \in {"end", "find", "extern", "node", "proto", "finish"}
  BY <1>1, FollowFacts
<1>3. HandRight(t)'
  BY <1>2 DEF HandRight, InSet
<1>4. /\ Len(StatementsOf(t)) \in Nat /\ DOMAIN StatementsOf(t) = 1 .. Len(StatementsOf(t))
      /\ thread[t].at \in Nat /\ FileOf(Url(t)) \in DOMAIN web.files /\ web \in Webs
      /\ \A i \in DOMAIN StatementsOf(t) : StatementsOf(t)[i].kind \in {"extern", "node", "proto"}
  BY <1>1, FileFacts DEF Opens, TypesInv, StatementsOf, ThreadRec
<1>5. ASSUME NEW i \in DOMAIN StatementsOf(t), i < thread'[t].at, StatementsOf(t)[i].kind = "extern"
      PROVE  /\ StatementsOf(t)[i].name \in DOMAIN known
             /\ \A s : s = StatementsOf(t)[i] => Knows(t, s, known[s.name])'
  <2>1. CASE i = thread[t].at
    <3>1. StatementAt(t) = StatementsOf(t)[i]
      BY <2>1 DEF StatementAt
    <3> QED BY <3>1, <1>5
  <2>2. CASE i < thread[t].at
    <3>1. PICK s : s = StatementsOf(t)[i]
      OBVIOUS
    <3>2. s.name \in DOMAIN thread[t].known /\ Knows(t, s, thread[t].known[s.name])
      BY <1>1, <1>5, <2>2, <3>1 DEF KnownRight
    <3>3. known[s.name] = thread[t].known[s.name]
      <4>1. SUFFICES ASSUME StatementAt(t).kind # "node", s.name = StatementAt(t).name PROVE FALSE
        BY <3>2
      <4>2. Path(s) = Path(StatementAt(t))
        <5>1. StatementAt(t).kind \in {"extern", "proto"}
          BY <1>1, <1>4, <4>1 DEF StatementAt
        <5>2. Path(s) = <<s.name>>
          BY <1>5, <3>1 DEF Path
        <5>3. Path(StatementAt(t)) = <<StatementAt(t).name>>
          BY <1>1, <5>1 DEF Path
        <5> QED BY <4>1, <5>2, <5>3
      <4>3. i = thread[t].at
        BY <1>1, <1>4, <1>5, <3>1, <4>1, <4>2, PathsAreUnique DEF StatementsOf, StatementAt
      <4> QED BY <2>2, <4>3, <1>4
    <3>4. \A x : x = known[s.name] => Knows(t, s, x)'
      BY <3>2, <3>3, <1>1, KnowsStays
    <3> QED BY <3>1, <3>2, <3>4
  <2> QED BY <1>2, <1>4, <1>5, <2>1, <2>2
<1>6. thread'[t].at <= Len(StatementsOf(t)) + 1
  BY <1>1, <1>2, <1>4
<1>7. KnownRight(t)'
  BY <1>1, <1>2, <1>5, <1>6 DEF KnownRight
<1> QED BY <1>3, <1>7

\* A node is made, or a type is passed on.
LEMMA MadeRight ==
  ASSUME Step, NEW t \in Threads, Making(t), Made(t)
  PROVE  HandRight(t)' /\ KnownRight(t)'
<1>1. /\ LoadInv /\ Stays /\ HandRight(t) /\ KnownRight(t) /\ TypesInv /\ thread[t] \in ThreadRec
      /\ thread[t].pc \in Makes
  BY DEF Step, RightParts, LoadInv, TypesInv, Making, At
<1>2. CASE At(t, "node")
  <2>1. Follow(t, thread[t].known) /\ thread[t].pc = "node" /\ thread[t].pc \in InParse
    BY <1>2 DEF Made, At, InParse
  <2>2. StatementAt(t).kind = "node"
    BY <1>1, <2>1, StatementHere DEF PlacesOf
  <2>3. thread[t].known \in Known
    BY <1>1 DEF ThreadRec
  <2> QED BY <2>1, <2>2, <2>3, FollowRight
<1>3. CASE At(t, "proto")
  <2>1. Go(t, "finish") /\ thread[t].pc = "proto" /\ "finish" \in Places
    BY <1>3 DEF Made, At, Places, InParse
  <2>2. /\ thread'[t].pc = "finish" /\ thread'[t].at = thread[t].at
        /\ thread'[t].known = thread[t].known /\ thread'[t].subject = thread[t].subject
    BY <1>1, <2>1, GoFacts
  <2>3. thread'[t].pc \notin {"id", "url", "type", "first", "idle", "fetch"} \cup InSet
    BY <2>2 DEF InSet
  <2> QED BY <1>1, <2>1, <2>2, <2>3, SameHand, SameKnown
<1>4. CASE At(t, "replace")
  <2>1. /\ thread'[t].pc \in {"types", "replace"} /\ thread'[t].at = thread[t].at
        /\ thread'[t].known = thread[t].known /\ thread'[t].subject = thread[t].subject
    BY <1>1, <1>4 DEF Made, At, TypesInv, ThreadRec
  <2>2. {thread[t].pc, thread'[t].pc} \subseteq InSet /\ thread[t].pc \notin {"idle", "fetch"}
    BY <1>4, <2>1 DEF At, InSet
  <2> QED BY <1>1, <2>1, <2>2, SameHand, SameKnown
<1> QED BY <1>2, <1>3, <1>4 DEF Making, Makes

LEMMA PassedRight ==
  ASSUME Step, NEW t \in Threads, thread[t].pc \in Makes, NEW x,
         thread' = [thread EXCEPT ![t].type = x]
  PROVE  HandRight(t)' /\ KnownRight(t)'
<1>1. LoadInv /\ Stays /\ HandRight(t) /\ KnownRight(t) /\ TypesInv /\ thread[t] \in ThreadRec
  BY DEF Step, RightParts, LoadInv, TypesInv
<1>2. /\ thread'[t].pc = thread[t].pc /\ thread'[t].at = thread[t].at
      /\ thread'[t].known = thread[t].known /\ thread'[t].subject = thread[t].subject
      /\ thread[t].pc # "idle"
  BY <1>1 DEF TypesInv, ThreadRec, Makes
<1> QED BY <1>1, <1>2, SameHand, SameKnown

LEMMA MakesRight ==
  ASSUME Step, NEW t \in Threads, MakeBuiltIn(t) \/ MakeInstance(t) \/ MakeExtern(t)
  PROVE  RightParts'
<1>1. Quiet(t)
  BY MakeBuiltInKeeps, MakeInstanceKeeps, MakeExternKeeps DEF Step
<1>2. Making(t) /\ thread[t].pc \in Makes
  BY DEF MakeBuiltIn, MakeInstance, MakeExtern, Making, Makes, At
<1>3. \/ Made(t)
      \/ thread' = thread
      \/ \E x : thread' = [thread EXCEPT ![t].type = x]
  <2>1. CASE MakeBuiltIn(t)
    BY <2>1 DEF MakeBuiltIn
  <2>2. CASE MakeInstance(t)
    BY <2>2 DEF MakeInstance, Break
  <2>3. CASE MakeExtern(t)
    BY <2>3 DEF MakeExtern
  <2> QED BY <2>1, <2>2, <2>3
<1> QED BY <1>1, <1>2, <1>3, MadeRight, PassedRight, QuietRight

\* The thread goes to a place where it needs nothing.
LEMMA GoneRight ==
  ASSUME Step, NEW t \in Threads, thread[t].pc # "idle", NEW place \in Places, Go(t, place),
         place \notin {"id", "url", "type", "first", "idle", "fetch"} \cup InSet,
         thread[t].pc # "fetch"
  PROVE  HandRight(t)' /\ KnownRight(t)'
<1>1. LoadInv /\ Stays /\ HandRight(t) /\ KnownRight(t) /\ TypesInv
  BY DEF Step, RightParts, LoadInv
<1>2. /\ thread'[t].pc = place /\ thread'[t].at = thread[t].at
      /\ thread'[t].known = thread[t].known /\ thread'[t].subject = thread[t].subject
  BY <1>1, GoFacts
<1> QED BY <1>1, <1>2, SameHand, SameKnown

LEMMA GiveUpRight ==
  ASSUME Step, NEW t \in Threads, thread[t].pc \notin {"idle", "fetch"}, GiveUp(t)
  PROVE  HandRight(t)' /\ KnownRight(t)'
<1> DEFINE place == IF t \in Openers THEN "failed" ELSE "clear"
<1>1. /\ Go(t, place) /\ place \in Places
      /\ place \notin {"id", "url", "type", "first", "idle", "fetch"} \cup InSet
  BY DEF GiveUp, Places, InSet
<1> HIDE DEF place
<1> QED BY <1>1, GoneRight

\* The registry has a metatype or a PROTO for the URL.
LEMMA FindKnownRight ==
  ASSUME Step, NEW t \in Threads, Find(t), StatementAt(t).url \in DOMAIN registry
  PROVE  RightParts'
<1> DEFINE s == StatementAt(t)
           x == registry[s.url]
<1>1. /\ thread[t].pc = "extern" /\ thread[t].pc \in InParse /\ thread[t].pc \notin {"idle", "fetch"}
      /\ LoadInv /\ Stays /\ KnownRight(t) /\ TypesInv /\ thread[t] \in ThreadRec
      /\ StatementsOf(t)' = StatementsOf(t)
  BY RightHere DEF Find, At, InParse
<1>2. /\ s.kind = "extern" /\ s.name \in Names /\ s.fits \in BOOLEAN /\ ~IsId(s.url)
  BY <1>1, ExternHere, RightHere
<1>3. Quiet(t)
  BY <1>1, FindKnownKeeps
<1>4. /\ x.kind = "metatype" => \E m \in DOMAIN metatypes : x = Metatype(m)
      /\ x.kind = "proto" => x \in DOMAIN bodies
      /\ x.kind \in {"metatype", "proto"} /\ x \in Things
  BY <1>1, RegistryFacts
<1>5. RegistryRight(s.url)
  BY DEF Step, RightParts
<1>6. CASE x.kind = "metatype"
  <2>1. GoWith(t, "type", x)
    BY <1>6 DEF Find, IsProto
  <2>2. PICK y \in Things : y = x
    BY <1>4
  <2>3. "type" \in Places
    BY DEF Places, InParse
  <2>4. /\ thread'[t].pc = "type" /\ thread'[t].at = thread[t].at
        /\ thread'[t].known = thread[t].known /\ thread'[t].subject = y
    BY <1>1, <2>1, <2>2, <2>3, GoFacts
  <2>5. KnownRight(t)'
    BY <1>1, <2>4, SameKnown
  <2>6. ASSUME NEW m \in DOMAIN metatypes', y = Metatype(m) PROVE metatypes'[m].wants = s.url
    <3>1. m \in DOMAIN metatypes
      BY <1>3 DEF Quiet
    <3>2. metatypes[m].wants = s.url
      BY <1>2, <1>5, <2>2, <2>6, <3>1 DEF RegistryRight
    <3> QED BY <1>1, <3>1, <3>2 DEF Stays, Grows
  <2>7. HandRight(t)'
    <3>1. StatementAt(t)' = StatementAt(t)
      BY <1>1, <2>4 DEF StatementAt
    <3>2. \A m : Metatype(m)' = Metatype(m)
      BY DEF Metatype
    <3>3. thread'[t].pc # "first" /\ thread'[t].pc \notin InSet
      BY <2>4 DEF InSet
    <3> QED BY <2>4, <2>6, <3>1, <3>2, <3>3 DEF HandRight
  <2> QED BY <1>3, <2>5, <2>7, QuietRight
<1>7. CASE x.kind = "proto" /\ s.fits
  <2>1. Follow(t, Put(thread[t].known, s.name, x))
    BY <1>7 DEF Find, IsProto
  <2>2. PICK y \in Things : y = x
    BY <1>4
  <2>3. PICK known \in Known : known = Put(thread[t].known, s.name, y)
    BY <1>1, <1>2, KnownFacts DEF ThreadRec
  <2>4. /\ s.name \in DOMAIN known /\ known[s.name] = y
        /\ \A n \in DOMAIN thread[t].known :
             n \in DOMAIN known /\ (known[n] = thread[t].known[n] \/ n = s.name)
    BY <2>3 DEF Put
  <2>5. Right(s.url, y)
    BY <1>5, <1>7, <2>2 DEF RegistryRight, IsProto
  <2>6. \A r : r = s => Knows(t, r, y)'
    BY <1>1, <2>5, RightStays DEF Knows
  <2>7. Follow(t, known)
    BY <2>1, <2>2, <2>3
  <2>8. HandRight(t)' /\ KnownRight(t)'
    <3>1. \A r : r = s => Knows(t, r, known[r.name])'
      <4>1. \A z : z = y => \A r : r = s => Knows(t, r, z)'
        BY <2>6
      <4> QED BY <2>4, <4>1
    <3> QED BY <1>1, <1>2, <2>3, <2>4, <2>7, <3>1, FollowRight
  <2> QED BY <1>3, <2>8, QuietRight
<1>8. CASE x.kind = "proto" /\ ~s.fits
  <2>1. GiveUp(t)
    BY <1>8 DEF Find, IsProto
  <2> QED BY <1>1, <1>3, <2>1, GiveUpRight, QuietRight
<1> QED BY <1>2, <1>4, <1>6, <1>7, <1>8

\* The URL of a name in a file.
LEMMA PairFacts ==
  ASSUME NEW a, NEW b
  PROVE  /\ Append(<<a>>, b) = <<a, b>> /\ <<a>> \o <<b>> = <<a, b>>
         /\ FileOf(<<a, b>>) = a /\ Tail(<<a, b>>) = <<b>> /\ Len(<<a, b>>) > 1
<1>1. /\ <<a>> \in Seq({a, b}) /\ <<b>> \in Seq({a, b}) /\ <<a, b>> \in Seq({a, b}) /\ b \in {a, b}
      /\ Len(<<a>>) = 1 /\ Len(<<b>>) = 1 /\ Len(<<a, b>>) = 2
  OBVIOUS
<1>2. /\ Append(<<a>>, b) \in Seq({a, b}) /\ Len(Append(<<a>>, b)) = 2
      /\ Append(<<a>>, b)[1] = a /\ Append(<<a>>, b)[2] = b
  BY <1>1, AppendProperties
<1>3. /\ <<a>> \o <<b>> \in Seq({a, b}) /\ Len(<<a>> \o <<b>>) = 2
      /\ (<<a>> \o <<b>>)[1] = a /\ (<<a>> \o <<b>>)[2] = b
  BY <1>1, ConcatProperties
<1>4. \A i \in 1 .. 2 : i = 1 \/ i = 2
  OBVIOUS
<1>5. \A i \in 1 .. 2 : Append(<<a>>, b)[i] = <<a, b>>[i] /\ (<<a>> \o <<b>>)[i] = <<a, b>>[i]
  BY <1>2, <1>3, <1>4
<1>6. Append(<<a>>, b) = <<a, b>> /\ <<a>> \o <<b>> = <<a, b>>
  BY <1>1, <1>2, <1>3, <1>5, SeqEqual
<1>7. FileOf(<<a, b>>) = a /\ Tail(<<a, b>>) = <<b>>
  BY DEF FileOf
<1> QED BY <1>1, <1>6, <1>7


\* There is nothing: the metatype is made.
LEMMA FindNewRight ==
  ASSUME Step, NEW t \in Threads, Find(t), StatementAt(t).url \notin DOMAIN registry
  PROVE  RightParts'
<1> DEFINE new == NewMetatype(t, StatementAt(t))
<1>0. PICK m \in Nat : m = Len(metatypes) + 1
  BY Typed DEF Step, LoadInv
<1>1. /\ thread[t].pc = "extern" /\ thread[t].pc \in InParse /\ m <= web.most
      /\ metatypes' = Append(metatypes, new)
      /\ thread' = [thread EXCEPT ![t].pc = "id", ![t].subject = Metatype(m), ![m].pc = "fetch"]
      /\ UNCHANGED <<registry, etypes>>
      /\ LoadInv /\ Stays /\ KnownRight(t) /\ TypesInv /\ StatementsOf(t)' = StatementsOf(t)
  BY <1>0, RightHere DEF Find, At, InParse
<1>2. PICK s : s = StatementAt(t)
  OBVIOUS
<1>3. s.kind = "extern" /\ s \in Declarations /\ s.url = s.wants
  BY <1>1, <1>2, ExternHere, RightHere
<1>4. /\ DOMAIN metatypes = 1 .. Len(metatypes) /\ Len(metatypes) \in Nat
      /\ metatypes \in Seq(MetatypeRec) /\ metatypes' \in Seq(MetatypeRec)
  BY <1>1, Typed DEF Step, LoadInv, TypesInv
<1>5. /\ DOMAIN metatypes' = DOMAIN metatypes \cup {m} /\ m \notin DOMAIN metatypes
      /\ \A n \in DOMAIN metatypes : metatypes'[n] = metatypes[n]
      /\ metatypes'[m].wants = s.wants /\ metatypes'[m].proto = Nothing
  <2>1. metatypes'[m].wants = s.wants /\ metatypes'[m].proto = Nothing
    <3>1. metatypes'[m] = new
      BY <1>0, <1>1, <1>4
    <3> QED BY <3>1, <1>2 DEF NewMetatype
  <2>2. Len(metatypes') = m /\ \A n \in DOMAIN metatypes : metatypes'[n] = metatypes[n]
    BY <1>0, <1>1, <1>4
  <2>3. DOMAIN metatypes' = 1 .. m
    BY <1>4, <2>2, LenProperties
  <2> QED BY <1>0, <1>4, <2>1, <2>2, <2>3
<1>6. m \in Loaders /\ m \in Threads /\ m # t /\ thread[m].pc = "idle"
  <2>1. m \in Loaders
    <3>1. web.most \in Nat /\ MaxMetatypes \in Nat /\ web.most <= MaxMetatypes
      BY <1>1, ExternprotoAssumption DEF TypesInv
    <3> QED BY <1>0, <1>1, <1>4, <3>1 DEF Loaders
  <2>2. thread[m].pc = "idle"
    BY <1>1, <1>5, <2>1 DEF LoadInv, PlaceInv, Threads
  <2> QED BY <1>1, <2>1, <2>2 DEF Threads
<1>7. /\ thread'[t].pc = "id" /\ thread'[t].at = thread[t].at /\ thread'[t].known = thread[t].known
      /\ thread'[t].subject = Metatype(m) /\ thread'[m].pc = "fetch"
      /\ \A u \in Threads \ {t, m} : thread'[u] = thread[u]
  BY <1>1, <1>6 DEF TypesInv, ThreadRec
<1>8. HandRight(m)' /\ KnownRight(m)'
  BY <1>7 DEF HandRight, KnownRight, Opens, InSet
<1>9. KnownRight(t)'
  BY <1>1, <1>7, SameKnown
<1>10. HandRight(t)'
  <2>1. StatementAt(t)' = s
    BY <1>1, <1>2, <1>7 DEF StatementAt
  <2>2. \A n : Metatype(n) = thread'[t].subject => n = m
    BY <1>7 DEF Metatype, Thing
  <2>3. \A n : Metatype(n)' = Metatype(n)
    BY DEF Metatype
  <2>4. thread'[t].pc # "first" /\ thread'[t].pc \notin InSet
    BY <1>7 DEF InSet
  <2> QED BY <1>3, <1>5, <2>1, <2>2, <2>3, <2>4 DEF HandRight
<1>11. LoadRight(m)'
  <2>1. Declarations' = Declarations
    BY <1>1, WebStays
  <2> QED BY <1>3, <1>5, <2>1 DEF LoadRight
<1>12. \A u \in Threads : thread'[u] = thread[u] \/ (HandRight(u)' /\ KnownRight(u)')
  BY <1>7, <1>8, <1>9, <1>10
<1> QED BY <1>1, <1>5, <1>11, <1>12, RightStep

\* The step registers something, and moves no more than its thread.
LEMMA PublishRight ==
  ASSUME Step, NEW t \in Threads, Others(t), UNCHANGED <<metatypes, etypes>>,
         HandRight(t)' /\ KnownRight(t)',
         NEW url, NEW x, Register(url, x), \A u : u = url => RegistryRight(u)'
  PROVE  RightParts'
<1>1. \A u \in DOMAIN registry' : (u \in DOMAIN registry /\ registry'[u] = registry[u]) \/ u = url
  BY DEF Register, Put
<1>2. \A u \in DOMAIN registry' : (u \in DOMAIN registry /\ registry'[u] = registry[u]) \/ RegistryRight(u)'
  BY <1>1
<1>3. \A u \in Threads : thread'[u] = thread[u] \/ (HandRight(u)' /\ KnownRight(u)')
  BY DEF Others
<1> QED BY <1>2, <1>3, RightStep

\* The id of an EXTERNPROTO, and its URL.
LEMMA RegisterRight ==
  ASSUME Step, NEW t \in Threads, RegisterId(t) \/ RegisterUrl(t)
  PROVE  RightParts'
<1>1. /\ thread[t].pc \in {"id", "url"} /\ thread[t].pc \in InParse
      /\ LoadInv /\ Stays /\ KnownRight(t) /\ HandRight(t) /\ TypesInv
      /\ StatementsOf(t)' = StatementsOf(t)
      /\ UNCHANGED <<metatypes, etypes>>
  BY RightHere DEF RegisterId, RegisterUrl, At, InParse
<1>2. PICK s : s = StatementAt(t)
  OBVIOUS
<1>3. s.kind = "extern" /\ s \in Declarations
  BY <1>1, <1>2, ExternHere, RightHere
<1>4. PICK m \in DOMAIN metatypes : thread[t].subject = Metatype(m)
  BY <1>1 DEF LoadInv, PlaceInv
<1>5. metatypes'[m].wants = s.url
  BY <1>1, <1>2, <1>4 DEF HandRight
<1>6. PICK place \in {"url", "type"} : Go(t, place)
  BY DEF RegisterId, RegisterUrl
<1>7. /\ Others(t) /\ thread'[t].pc = place /\ thread'[t].at = thread[t].at
      /\ thread'[t].known = thread[t].known /\ thread'[t].subject = thread[t].subject
  <2>1. place \in Places
    BY DEF Places, InParse
  <2> QED BY <1>1, <1>6, <2>1, GoFacts
<1>8. HandRight(t)' /\ KnownRight(t)'
  BY <1>1, <1>7, SameHand, SameKnown
<1>9. PICK url : /\ Register(url, thread[t].subject)
                 /\ url = s.url \/ url = Append(Url(t), s.name)
  BY <1>2 DEF RegisterId, RegisterUrl, RegisterOver
<1>10. url = s.url \/ IsId(url)'
  <2>1. Url(t) = <<FileOf(Url(t))>> /\ FileOf(Url(t)) \in DOMAIN web.files
    BY <1>1, RightHere DEF Opens
  <2>2. s \in Those(FileOf(Url(t)), "extern")
    BY <1>1, <1>2, <1>3, StatementHere DEF Those
  <2>3. PICK f : f = FileOf(Url(t))
    OBVIOUS
  <2>4. /\ FileOf(<<f, s.name>>) = f /\ Tail(<<f, s.name>>) = <<s.name>>
        /\ Append(<<f>>, s.name) = <<f, s.name>>
    BY PairFacts
  <2>5. IsId(<<f, s.name>>)
    BY <1>3, <2>1, <2>2, <2>3, <2>4 DEF IsId, Path
  <2>6. url = s.url \/ url = <<f, s.name>>
    BY <1>9, <2>1, <2>3, <2>4
  <2> QED BY <1>1, <2>5, <2>6, WebStays
<1>11. RegistryRight(url)'
  <2>1. registry'[url] = Metatype(m) /\ registry'[url].kind = "metatype"
    BY <1>4, <1>9 DEF Register, Put, Metatype, Thing
  <2>2. ~IsProto(url)'
    BY <2>1 DEF IsProto
  <2>3. \A n : Metatype(n)' = Metatype(n) /\ (Metatype(n) = Metatype(m) => n = m)
    BY DEF Metatype, Thing
  <2> QED BY <1>5, <1>10, <2>1, <2>2, <2>3 DEF RegistryRight
<1>12. \A u : u = url => RegistryRight(u)'
  BY <1>11
<1>13. PICK x : x = thread[t].subject
  OBVIOUS
<1> QED BY <1>1, <1>7, <1>8, <1>9, <1>12, <1>13, PublishRight

\* A PROTO is registered under its id.
LEMMA FinishRight ==
  ASSUME Step, NEW t \in Threads, FinishProto(t)
  PROVE  RightParts'
<1>1. /\ thread[t].pc = "finish" /\ thread[t].pc \in InParse /\ thread[t].pc \notin {"idle", "fetch"}
      /\ LoadInv /\ Stays /\ KnownRight(t) /\ HandRight(t) /\ TypesInv
      /\ Url(t)' = Url(t) /\ Url(t) = <<FileOf(Url(t))>>
      /\ UNCHANGED <<web, metatypes, etypes>>
  BY RightHere DEF FinishProto, At, InParse
<1>2. PICK s, p, f : s = StatementAt(t) /\ p = Thing("proto", t, Path(s)) /\ f = FileOf(Url(t))
  OBVIOUS
<1>3. /\ s.kind = "proto" /\ Path(s) = <<s.name>> /\ p \in Things /\ p.kind = "proto" /\ p.by = t
      /\ p.name = <<s.name>>
  BY <1>1, <1>2, ProtoHere, RightHere, ThingFacts DEF Thing
<1>4. Register(Url(t) \o Path(s), p) /\ GoWith(t, "check", p) /\ p \in DOMAIN bodies'
  BY <1>2 DEF FinishProto, Put
<1>5. Url(t) \o Path(s) = <<f, s.name>>
  <2>1. <<f>> \o <<s.name>> = <<f, s.name>>
    BY PairFacts
  <2> QED BY <1>1, <1>2, <1>3, <2>1
<1>6. /\ Others(t) /\ thread'[t].pc = "check" /\ thread'[t].at = thread[t].at
      /\ thread'[t].known = thread[t].known /\ thread'[t].subject = p
  <2>1. "check" \in Places
    BY DEF Places, InParse
  <2> QED BY <1>1, <1>3, <1>4, <2>1, GoFacts
<1>7. HandRight(t)' /\ KnownRight(t)'
  <2>1. KnownRight(t)'
    BY <1>1, <1>6, SameKnown
  <2>2. HandRight(t)'
    BY <1>6 DEF HandRight, InSet
  <2> QED BY <2>1, <2>2
<1>8. Right(<<f, s.name>>, p)'
  <2>1. FileOf(<<f, s.name>>) = f /\ Tail(<<f, s.name>>) = <<s.name>> /\ Len(<<f, s.name>>) > 1
    BY PairFacts
  <2>2. FileOf(Url(t))' = f
    BY <1>1, <1>2 DEF FileOf
  <2>3. FileOf(<<f, s.name>>)' = f
    BY <2>1 DEF FileOf
  <2>4. Means(<<f, s.name>>, p)'
    BY <1>3, <2>1, <2>2, <2>3 DEF Means
  <2> QED BY <1>4, <2>4 DEF Right
<1>9. \A u : u = <<f, s.name>> => RegistryRight(u)'
  <2>1. registry'[<<f, s.name>>] = p
    BY <1>4, <1>5 DEF Register, Put
  <2>2. \A m : p # Metatype(m)
    BY <1>3 DEF Metatype, Thing
  <2>3. \A m : Metatype(m)' = Metatype(m)
    BY DEF Metatype
  <2>4. RegistryRight(<<f, s.name>>)'
    BY <1>8, <2>1, <2>2, <2>3 DEF RegistryRight
  <2> QED BY <2>4
<1> QED BY <1>1, <1>4, <1>5, <1>6, <1>7, <1>9, PublishRight

\* It gets into the scope.
LEMMA KnowRight ==
  ASSUME Step, NEW t \in Threads, thread[t].pc \in {"check", "first"}, KnowProto(t)
  PROVE  HandRight(t)' /\ KnownRight(t)'
<1>1. thread[t].pc \in InParse /\ TypesInv /\ thread[t] \in ThreadRec /\ LoadInv
  BY RightHere DEF InParse
<1>2. StatementAt(t).kind = "proto" /\ StatementAt(t).name \in Names /\ thread[t].subject \in Things
  BY <1>1, ProtoHere DEF ThreadRec
<1>3. PICK known \in Known : known = Put(thread[t].known, StatementAt(t).name, thread[t].subject)
  BY <1>1, <1>2, KnownFacts DEF ThreadRec
<1>4. \A n \in DOMAIN thread[t].known :
        n \in DOMAIN known /\ (known[n] = thread[t].known[n] \/ n = StatementAt(t).name)
  BY <1>3 DEF Put
<1>5. Follow(t, known)
  BY <1>3 DEF KnowProto
<1> QED BY <1>1, <1>2, <1>4, <1>5, FollowRight

\* The first PROTO of a file is at hand, or the URL was overwritten.
LEMMA CheckRight ==
  ASSUME Step, NEW t \in Threads, CheckFirst(t)
  PROVE  RightParts'
<1>1. /\ thread[t].pc = "check" /\ thread[t].pc \in InParse /\ thread[t].pc \notin {"idle", "fetch"}
      /\ LoadInv /\ Stays /\ KnownRight(t) /\ TypesInv
      /\ Url(t)' = Url(t) /\ Url(t) = <<FileOf(Url(t))>> /\ Opens(t)
      /\ thread[t].at \in DOMAIN StatementsOf(t)
      /\ UNCHANGED <<web, bodies, overwritten>>
  BY RightHere DEF CheckFirst, At, InParse
<1>2. Quiet(t)
  BY <1>1, CheckFirstKeeps
<1>3. CASE IsProto(Url(t))
  <2>1. KnowProto(t)
    BY <1>3 DEF CheckFirst
  <2> QED BY <1>1, <1>2, <2>1, KnowRight, QuietRight
<1>4. CASE ~IsProto(Url(t))
  <2>1. Go(t, "first") /\ "first" \in Places
    BY <1>4 DEF CheckFirst, Places, InParse
  <2>2. PICK p, u, f : p = thread[t].subject /\ u = Url(t) /\ f = StatementsOf(t)
    OBVIOUS
  <2>3. /\ thread'[t].pc = "first" /\ thread'[t].at = thread[t].at
        /\ thread'[t].known = thread[t].known /\ thread'[t].subject = p
    BY <1>1, <2>1, <2>2, GoFacts
  <2>4. KnownRight(t)'
    BY <1>1, <2>3, SameKnown
  <2>5. p = Thing("proto", t, Path(StatementAt(t))) /\ p \in DOMAIN bodies
    BY <1>1, <2>2 DEF LoadInv, PlaceInv
  <2>6. ASSUME u \notin overwritten, NEW i \in DOMAIN f, f[i].kind = "proto"
        PROVE  \E j \in 1 .. i : f[j].kind = "proto" /\ Path(f[j]) = p.name
    <3>1. ~(i < thread[t].at)
      BY <1>1, <1>4, <2>2, <2>6 DEF LoadInv, ReadInv, Kept
    <3>2. i \in Nat /\ thread[t].at \in 1 .. i
      BY <1>1, <2>2, <3>1, OpensFacts
    <3>3. f[thread[t].at].kind = "proto" /\ Path(f[thread[t].at]) = p.name
      BY <1>1, <2>2, <2>5, ProtoHere DEF StatementAt, Thing
    <3> QED BY <3>2, <3>3
  <2>7. Right(u, p)
    <3>1. p.by = t /\ FileOf(Url(t)) = FileOf(u) /\ f = web.files[FileOf(u)]
      BY <2>2, <2>5 DEF Thing, StatementsOf
    <3>2. ~(Len(u) > 1)
      <4>1. \A h : ~(Len(<<h>>) > 1)
        OBVIOUS
      <4>2. PICK h : u = <<h>>
        BY <1>1, <2>2
      <4> QED BY <4>1, <4>2
    <3> QED BY <2>5, <2>6, <3>1, <3>2 DEF Right, Means
  <2>8. Right(u, p)'
    BY <1>1, <2>7, RightStays
  <2>9. HandRight(t)'
    BY <1>1, <2>2, <2>3, <2>8 DEF HandRight, InSet
  <2> QED BY <1>2, <2>4, <2>9, QuietRight
<1> QED BY <1>3, <1>4

\* It is registered under the file's URL.
LEMMA RegisterFirstRight ==
  ASSUME Step, NEW t \in Threads, RegisterFirst(t)
  PROVE  RightParts'
<1>1. /\ thread[t].pc = "first" /\ thread[t].pc \in InParse /\ KnowProto(t)
      /\ Register(Url(t), thread[t].subject) /\ UNCHANGED <<metatypes, etypes>>
      /\ LoadInv /\ Stays /\ HandRight(t) /\ TypesInv /\ thread[t] \in ThreadRec
  BY RightHere DEF RegisterFirst, At, InParse
<1>2. HandRight(t)' /\ KnownRight(t)'
  BY <1>1, KnowRight
<1>3. Others(t)
  <2>1. StatementAt(t).name \in Names /\ thread[t].subject \in Things
    BY <1>1, ProtoHere DEF ThreadRec
  <2>2. Put(thread[t].known, StatementAt(t).name, thread[t].subject) \in Known
    BY <1>1, <2>1, KnownFacts DEF ThreadRec
  <2> QED BY <1>1, <2>2, FollowFacts DEF KnowProto
<1>4. PICK u, p : u = Url(t) /\ p = thread[t].subject
  OBVIOUS
<1>5. Right(u, p)'
  <2>1. Right(u, p)
    BY <1>1, <1>4 DEF HandRight
  <2> QED BY <1>1, <2>1, RightStays
<1>6. p.kind = "proto"
  <2>1. BodyInv(p)
    BY <1>1, <1>4 DEF LoadInv, PlaceInv
  <2> QED BY <2>1 DEF BodyInv, Thing
<1>7. RegistryRight(u)'
  <2>1. registry'[u] = p
    BY <1>1, <1>4 DEF Register, Put
  <2>2. \A m : p # Metatype(m)
    BY <1>6 DEF Metatype, Thing
  <2>3. \A m : Metatype(m)' = Metatype(m)
    BY DEF Metatype
  <2> QED BY <1>5, <2>1, <2>2, <2>3 DEF RegistryRight
<1>8. \A v : v = u => RegistryRight(v)'
  BY <1>7
<1> QED BY <1>1, <1>2, <1>3, <1>4, <1>8, PublishRight

\* A type is made of a metatype, or one of its PROTO.
LEMMA TypeRightHere ==
  ASSUME Step, NEW t \in Threads, thread[t].pc = "type", NEW x \in Things,
         Follow(t, Put(thread[t].known, StatementAt(t).name, x)),
         \A s : s = StatementAt(t) => Knows(t, s, x)'
  PROVE  HandRight(t)' /\ KnownRight(t)' /\ Others(t)
<1>1. thread[t].pc \in InParse /\ thread[t] \in ThreadRec /\ LoadInv
  BY RightHere DEF InParse
<1>2. StatementAt(t).kind = "extern" /\ StatementAt(t).name \in Names
  BY <1>1, ExternHere
<1>3. PICK known \in Known : known = Put(thread[t].known, StatementAt(t).name, x)
  BY <1>1, <1>2, KnownFacts DEF ThreadRec
<1>4. /\ StatementAt(t).name \in DOMAIN known /\ known[StatementAt(t).name] = x
      /\ \A n \in DOMAIN thread[t].known :
           n \in DOMAIN known /\ (known[n] = thread[t].known[n] \/ n = StatementAt(t).name)
  BY <1>3 DEF Put
<1>5. \A s : s = StatementAt(t) => Knows(t, s, known[s.name])'
  <2>1. \A z : z = x => \A s : s = StatementAt(t) => Knows(t, s, z)'
    OBVIOUS
  <2> QED BY <1>4, <2>1
<1> QED BY <1>1, <1>2, <1>3, <1>4, <1>5, FollowRight, FollowFacts

LEMMA NewTypeRight ==
  ASSUME Step, NEW t \in Threads, NewType(t)
  PROVE  RightParts'
<1>1. /\ thread[t].pc = "type" /\ thread[t].pc \in InParse /\ thread[t].pc \notin {"idle", "fetch"}
      /\ UNCHANGED <<registry, overwritten>>
      /\ LoadInv /\ Stays /\ HandRight(t) /\ TypesInv /\ thread[t] \in ThreadRec
  BY RightHere DEF NewType, At, InParse
<1>2. PICK m \in DOMAIN metatypes : thread[t].subject = Metatype(m)
  BY <1>1 DEF LoadInv, PlaceInv
<1>3. PICK s, p : s = StatementAt(t) /\ p = metatypes[m].proto
  OBVIOUS
<1>4. /\ thread[t].subject.by = m /\ metatypes[m].wants = s.url /\ LoadRight(m) /\ p \in Things
      /\ s.kind = "extern" /\ s.name \in Names /\ s.fits \in BOOLEAN
      /\ metatypes[m] \in MetatypeRec
  BY <1>1, <1>2, <1>3, Typed, ThingFacts, ExternHere DEF HandRight, Step, RightParts, MetatypeRec
<1>5. CASE ~ProtoLives(p)
  <2>1. PICK e, new : /\ e = Thing("extern", t, <<s.name>>)
                      /\ new = [of |-> m, fits |-> s.fits, instead |-> Nothing, nodes |-> <<>>]
    OBVIOUS
  <2>2. /\ etypes' = Put(etypes, e, new)
        /\ metatypes' = [metatypes EXCEPT ![m].types = Append(@, e)]
        /\ Follow(t, Put(thread[t].known, s.name, e))
    BY <1>3, <1>4, <1>5, <2>1 DEF NewType
  <2>3. e \in Things /\ new.of = m /\ new.instead = Nothing
    BY <1>4, <2>1, ThingFacts
  <2>4. /\ DOMAIN etypes' = DOMAIN etypes \cup {e} /\ etypes'[e] = new
        /\ \A x \in DOMAIN etypes : x # e => etypes'[x] = etypes[x]
    BY <2>2 DEF Put
  <2>5. \A n \in DOMAIN metatypes' :
          n \in DOMAIN metatypes /\ metatypes'[n].proto = metatypes[n].proto
    BY <1>2, <1>4, <2>2, <1>1 DEF MetatypeRec, TypesInv
  <2>6. Knows(t, s, e)'
    <3>1. metatypes'[m].wants = s.url
      BY <1>1, <1>2, <1>4 DEF Stays, Grows
    <3> QED BY <2>1, <2>3, <2>4, <3>1 DEF Knows, Thing
  <2>7. HandRight(t)' /\ KnownRight(t)' /\ Others(t)
    <3>1. \A r : r = StatementAt(t) => Knows(t, r, e)'
      BY <1>3, <2>6
    <3> QED BY <1>1, <1>3, <2>2, <2>3, <3>1, TypeRightHere
  <2>8. TypeRight(e)'
    BY <2>3, <2>4 DEF TypeRight
  <2>9. \A x \in DOMAIN etypes' :
          (x \in DOMAIN etypes /\ etypes'[x].instead = etypes[x].instead) \/ TypeRight(x)'
    <3>1. \A x : x = e => TypeRight(x)'
      BY <2>8
    <3> QED BY <2>4, <3>1
  <2>10. \A u \in Threads : thread'[u] = thread[u] \/ (HandRight(u)' /\ KnownRight(u)')
    BY <2>7 DEF Others
  <2> QED BY <1>1, <2>5, <2>9, <2>10, RightStep
<1>6. CASE ProtoLives(p)
  <2>1. Quiet(t)
    BY <1>1, <1>3, <1>4, <1>6, KnownTypeKeeps
  <2>2. CASE s.fits
    <3>1. Follow(t, Put(thread[t].known, s.name, p))
      BY <1>3, <1>4, <1>6, <2>2 DEF NewType
    <3>2. p # Nothing
      <4>1. ASSUME p = Nothing PROVE FALSE
        <5>1. ~Registered(Nothing)
          <6>1. \A u \in DOMAIN registry : registry[u].kind # "nothing"
            BY <1>1, RegistryFacts
          <6> QED BY <6>1, ThingFacts DEF Registered, Range
        <5>2. ASSUME NEW u \in Threads, Holds(u, Nothing, InSet \cup {"check", "first"}) PROVE FALSE
          <6>1. Nothing \in DOMAIN bodies
            BY <1>1, <5>2 DEF Holds, LoadInv, PlaceInv
          <6>2. Nothing.kind = "proto"
            BY <1>1, <6>1 DEF LoadInv, BodyInv, Thing
          <6> QED BY <6>2, ThingFacts
        <5> QED BY <1>6, <4>1, <5>1, <5>2 DEF ProtoLives
      <4> QED BY <4>1
    <3>3. Right(s.url, p)
      BY <1>3, <1>4, <3>2 DEF LoadRight
    <3>4. \A r : r = StatementAt(t) => Knows(t, r, p)'
      BY <1>1, <1>3, <3>3, RightStays DEF Knows
    <3>5. HandRight(t)' /\ KnownRight(t)'
      BY <1>1, <1>3, <1>4, <3>1, <3>4, TypeRightHere
    <3> QED BY <2>1, <3>5, QuietRight
  <2>3. CASE ~s.fits
    <3>1. GiveUp(t)
      BY <1>3, <1>4, <1>6, <2>3 DEF NewType
    <3> QED BY <1>1, <2>1, <3>1, GiveUpRight, QuietRight
  <2> QED BY <1>4, <2>2, <2>3
<1> QED BY <1>5, <1>6

\* A load thread, and its metatype.
LEMMA RightLoader ==
  ASSUME Step, NEW m \in Loaders, thread[m].pc # "idle"
  PROVE  /\ LoadInv /\ Stays /\ TypesInv /\ m \in Threads /\ m \in DOMAIN metatypes /\ m # NoOne
         /\ HandRight(m) /\ KnownRight(m) /\ LoadRight(m)
         /\ thread[m] \in ThreadRec /\ metatypes[m] \in MetatypeRec
<1>1. LoadInv /\ Stays /\ RightParts
  BY DEF Step
<1>2. /\ m \in Threads /\ m \in DOMAIN metatypes /\ m # NoOne /\ TypesInv
      /\ thread[m] \in ThreadRec /\ metatypes[m] \in MetatypeRec
  BY <1>1, LoaderHere
<1> QED BY <1>1, <1>2 DEF RightParts

\* The thread has its file, of which it knows nothing yet.
LEMMA FetchRight ==
  ASSUME Step, NEW m \in Loaders, Fetch(m)
  PROVE  RightParts'
<1> DEFINE f == FileOf(metatypes[m].wants)
<1>1. /\ thread[m].pc = "fetch" /\ LoadInv /\ Stays /\ TypesInv /\ m \in Threads
      /\ m \in DOMAIN metatypes /\ thread[m] \in ThreadRec /\ web \in Webs
      /\ UNCHANGED <<web, metatypes>>
  BY RightLoader DEF Fetch, At, TypesInv
<1>2. Quiet(m) /\ FileOf(Url(m)) = f /\ PlaceInv(m)
  BY <1>1, FetchKeeps, LoaderHere
<1>3. Url(m)' = Url(m) /\ StatementsOf(m)' = StatementsOf(m) /\ FileOf(Url(m))' = FileOf(Url(m))
  BY <1>1, UrlsStay DEF Stays, FileOf
<1>4. CASE f \in DOMAIN web.files
  <2>1. PICK r : r = GoOn(m, web.files[f], 1, <<>>)
    OBVIOUS
  <2>2. thread' = [thread EXCEPT ![m] = r] /\ StatementsOf(m) = web.files[f]
    BY <1>2, <1>4, <2>1 DEF Fetch, StatementsOf
  <2>3. /\ DOMAIN web.files[f] = 1 .. Len(web.files[f]) /\ Len(web.files[f]) \in Nat
        /\ \A i \in DOMAIN web.files[f] : web.files[f][i].kind \in {"extern", "node", "proto"}
    BY <1>1, <1>4, FileFacts
  <2> HIDE DEF f
  <2>4. WentOn(r, m, web.files[f], 1, <<>>)
    <3>1. 1 <= Len(web.files[f]) => 1 \in DOMAIN web.files[f]
      BY <2>3
    <3> QED BY <1>1, <2>1, <2>3, <3>1, GoOnFacts, KnownFacts
  <2>5. thread'[m].at = 1 /\ thread'[m].pc \in {"end", "find", "extern", "node", "proto", "finish"}
    <3>1. thread'[m] = r
      BY <1>1, <2>2, <2>4, MoveFacts DEF WentOn
    <3>2. r.pc \in {"end", "find", "extern", "node", "proto", "finish"}
      <4>1. 1 > Len(web.files[f]) \/ 1 <= Len(web.files[f])
        BY <2>3
      <4> QED BY <2>4, <4>1 DEF WentOn
    <3> QED BY <2>4, <3>1, <3>2 DEF WentOn
  <2>6. HandRight(m)'
    BY <2>5 DEF HandRight, InSet
  <2>7. KnownRight(m)'
    <3>1. 1 <= Len(StatementsOf(m)) + 1 /\ \A i \in DOMAIN StatementsOf(m) : ~(i < 1)
      BY <2>2, <2>3
    <3> QED BY <1>3, <2>5, <3>1 DEF KnownRight
  <2> QED BY <1>1, <1>2, <2>6, <2>7, QuietRight
<1>5. CASE f \notin DOMAIN web.files
  <2>1. Go(m, "clear") /\ "clear" \in Places
    BY <1>5 DEF Fetch, Places
  <2>2. thread'[m].pc = "clear"
    BY <1>1, <2>1, GoFacts
  <2>3. HandRight(m)'
    BY <2>2 DEF HandRight, InSet
  <2>4. KnownRight(m)'
    BY <1>1, <1>2, <1>3, <1>5 DEF KnownRight, Opens
  <2> QED BY <1>1, <1>2, <2>3, <2>4, QuietRight
<1> QED BY <1>4, <1>5

\* The file is read: the registry has the right PROTO.
LEMMA FindProtoRight ==
  ASSUME Step, NEW m \in Loaders, FindProto(m)
  PROVE  RightParts'
<1>1. /\ thread[m].pc = "find" /\ LoadInv /\ Stays /\ TypesInv /\ m \in Threads
      /\ m \in DOMAIN metatypes /\ KnownRight(m)
  BY RightLoader DEF FindProto, At
<1>2. Quiet(m)
  BY <1>1, FindProtoKeeps
<1>3. CASE IsProto(metatypes[m].wants)
  <2>1. PICK u, x : u = metatypes[m].wants /\ x = registry[metatypes[m].wants]
    OBVIOUS
  <2>2. GoWith(m, "set", x) /\ "set" \in Places
    BY <1>3, <2>1 DEF FindProto, Places, InSet
  <2>3. Right(u, x)
    BY <1>3, <2>1 DEF Step, RightParts, RegistryRight, IsProto
  <2>4. x \in Things
    BY <1>1, <2>3 DEF Right, TypesInv
  <2>5. /\ thread'[m].pc = "set" /\ thread'[m].at = thread[m].at
        /\ thread'[m].known = thread[m].known /\ thread'[m].subject = x
    BY <1>1, <2>2, <2>4, GoFacts
  <2>6. KnownRight(m)'
    BY <1>1, <2>5, SameKnown
  <2>7. Right(u, x)' /\ metatypes'[m].wants = u
    BY <1>1, <2>1, <2>3, RightStays DEF Stays, Grows
  <2>8. HandRight(m)'
    BY <2>5, <2>7 DEF HandRight, InSet
  <2> QED BY <1>1, <1>2, <2>6, <2>8, QuietRight
<1>4. CASE ~IsProto(metatypes[m].wants)
  <2>1. Go(m, "clear") /\ "clear" \in Places
    BY <1>4 DEF FindProto, Places
  <2> QED BY <1>1, <1>2, <2>1, GoneRight, QuietRight DEF InSet
<1> QED BY <1>3, <1>4

\* Nothing moves.
LEMMA StillRight ==
  ASSUME Step, UNCHANGED <<web, thread, registry, metatypes, etypes, bodies, left, overwritten>>
  PROVE  RightParts'
<1>1. \A u \in Threads : thread'[u] = thread[u]
  OBVIOUS
<1> QED BY <1>1, RightStep

\* The metatype gets the PROTO that its thread has found.
LEMMA SetProtoRight ==
  ASSUME Step, NEW m \in Loaders, SetProto(m)
  PROVE  RightParts'
<1>1. /\ thread[m].pc = "set" /\ thread[m].pc \in InSet /\ LoadInv /\ Stays /\ TypesInv
      /\ m \in Threads /\ m \in DOMAIN metatypes /\ thread[m] \in ThreadRec
      /\ metatypes[m] \in MetatypeRec /\ HandRight(m) /\ KnownRight(m) /\ LoadRight(m)
  BY RightLoader DEF SetProto, At, InSet
<1>2. CASE ~MetatypeLives(m)
  BY <1>2, StillRight DEF SetProto, Break
<1>3. CASE MetatypeLives(m)
  <2>1. /\ metatypes' = [metatypes EXCEPT ![m].holder = m, ![m].proto = thread[m].subject]
        /\ thread' = [thread EXCEPT ![m].pc = "types", ![m].next = 1]
        /\ UNCHANGED <<web, registry, etypes, bodies, broke, left, overwritten>>
    BY <1>3 DEF SetProto
  <2>2. PICK u, x : u = metatypes[m].wants /\ x = thread[m].subject
    OBVIOUS
  <2>3. /\ thread'[m].pc = "types" /\ thread'[m].at = thread[m].at
        /\ thread'[m].known = thread[m].known /\ thread'[m].subject = thread[m].subject
        /\ \A t \in Threads : t # m => thread'[t] = thread[t]
    BY <1>1, <2>1 DEF TypesInv, ThreadRec
  <2>4. HandRight(m)' /\ KnownRight(m)'
    <3>1. {thread[m].pc, thread'[m].pc} \subseteq InSet
      BY <1>1, <2>3 DEF InSet
    <3> QED BY <1>1, <2>3, <3>1, SameHand, SameKnown
  <2>5. /\ DOMAIN metatypes' = DOMAIN metatypes
        /\ metatypes'[m].proto = x /\ metatypes'[m].wants = u
        /\ \A n \in DOMAIN metatypes : n # m => metatypes'[n] = metatypes[n]
    BY <1>1, <2>1, <2>2, Typed DEF MetatypeRec
  <2>6. Right(u, x)'
    <3>1. Right(u, x)
      BY <1>1, <2>2 DEF HandRight
    <3> QED BY <1>1, <3>1, RightStays
  <2>7. LoadRight(m)'
    <3>1. \E s \in Declarations : u = s.url
      BY <1>1, <2>2 DEF LoadRight
    <3>2. Declarations' = Declarations
      BY <1>1, WebStays
    <3> QED BY <2>5, <2>6, <3>1, <3>2 DEF LoadRight
  <2>8. \A t \in Threads : thread'[t] = thread[t] \/ (HandRight(t)' /\ KnownRight(t)')
    BY <2>3, <2>4
  <2>9. \A n \in DOMAIN metatypes' :
          (n \in DOMAIN metatypes /\ metatypes'[n].proto = metatypes[n].proto) \/ LoadRight(n)'
    <3>1. \A n : n = m => LoadRight(n)'
      BY <2>7
    <3> QED BY <2>5, <3>1
  <2> QED BY <2>1, <2>8, <2>9, RightStep
<1> QED BY <1>2, <1>3

\* A type of the metatype gets the PROTO.
LEMMA SetTypeRight ==
  ASSUME Step, NEW m \in Loaders, SetType(m)
  PROVE  RightParts'
<1>1. /\ thread[m].pc = "types" /\ thread[m].pc \in InSet /\ LoadInv /\ Stays /\ TypesInv
      /\ m \in Threads /\ m \in DOMAIN metatypes /\ thread[m] \in ThreadRec
      /\ HandRight(m) /\ KnownRight(m)
      /\ thread[m].pc \in Setting /\ thread[m].next <= Len(metatypes[m].types)
  BY RightLoader DEF SetType, At, InSet, Setting
<1>2. PICK e, x, u : e = TypeAt(m) /\ x = thread[m].subject /\ u = metatypes[m].wants
  OBVIOUS
<1>3. e \in DOMAIN etypes /\ etypes[e].of = m /\ etypes[e] \in EtypeRec
  BY <1>1, <1>2, ReplaceFacts DEF TypesOf
<1>4. CASE ~ScopeLives(e.by)
  BY <1>2, <1>4, StillRight DEF SetType, Break
<1>5. CASE ScopeLives(e.by) /\ ~etypes[e].fits
  <2>1. /\ Go(m, "clear") /\ metatypes' = Unlock(m, NoOne)
        /\ UNCHANGED <<web, registry, etypes, bodies, broke, left, overwritten>>
    BY <1>2, <1>5 DEF SetType
  <2>2. HandRight(m)' /\ KnownRight(m)'
    BY <1>1, <2>1, GoneRight DEF InSet, Places
  <2>3. Others(m)
    BY <1>1, <2>1, GoFacts DEF Places
  <2>4. LockStep
    BY <1>1, <2>1, UnlockFacts
  <2>5. \A n \in DOMAIN metatypes' :
          n \in DOMAIN metatypes /\ metatypes'[n].proto = metatypes[n].proto
    BY <2>1, <2>4 DEF Unlock, LockStep
  <2>6. \A t \in Threads : thread'[t] = thread[t] \/ (HandRight(t)' /\ KnownRight(t)')
    BY <2>2, <2>3 DEF Others
  <2> QED BY <2>1, <2>5, <2>6, RightStep
<1>6. CASE ScopeLives(e.by) /\ etypes[e].fits
  <2> DEFINE nodes == etypes[e].nodes
  <2>1. /\ etypes' = [etypes EXCEPT ![e].instead = x]
        /\ thread' = IF nodes = << >> THEN [thread EXCEPT ![m].next = @ + 1]
                     ELSE [thread EXCEPT ![m].pc = "replace", ![m].node = 1,
                                         ![m].type = thread[m].subject, ![m].scope = nodes[1]]
        /\ UNCHANGED <<web, registry, metatypes, bodies, broke, left, overwritten>>
    BY <1>2, <1>6 DEF SetType
  <2> HIDE DEF nodes
  <2>2. /\ thread'[m].pc \in {"types", "replace"} /\ thread'[m].at = thread[m].at
        /\ thread'[m].known = thread[m].known /\ thread'[m].subject = thread[m].subject
        /\ \A t \in Threads : t # m => thread'[t] = thread[t]
    <3>1. CASE nodes = << >>
      BY <1>1, <2>1, <3>1 DEF TypesInv, ThreadRec
    <3>2. CASE nodes # << >>
      BY <1>1, <2>1, <3>2 DEF TypesInv, ThreadRec
    <3> QED BY <3>1, <3>2
  <2>3. HandRight(m)' /\ KnownRight(m)'
    <3>1. {thread[m].pc, thread'[m].pc} \subseteq InSet
      BY <1>1, <2>2 DEF InSet
    <3> QED BY <1>1, <2>2, <3>1, SameHand, SameKnown
  <2>4. /\ DOMAIN etypes' = DOMAIN etypes /\ etypes'[e].instead = x /\ etypes'[e].of = m
        /\ \A y \in DOMAIN etypes : y # e => etypes'[y] = etypes[y]
    BY <1>3, <2>1 DEF EtypeRec
  <2>5. TypeRight(e)'
    <3>1. Right(u, x)
      BY <1>1, <1>2 DEF HandRight
    <3>2. Right(u, x)'
      BY <1>1, <3>1, RightStays
    <3>3. metatypes'[m].wants = u
      BY <1>2, <2>1
    <3> QED BY <2>4, <3>2, <3>3 DEF TypeRight
  <2>6. \A y \in DOMAIN etypes' :
          (y \in DOMAIN etypes /\ etypes'[y].instead = etypes[y].instead) \/ TypeRight(y)'
    <3>1. \A y : y = e => TypeRight(y)'
      BY <2>5
    <3> QED BY <2>4, <3>1
  <2>7. \A t \in Threads : thread'[t] = thread[t] \/ (HandRight(t)' /\ KnownRight(t)')
    BY <2>2, <2>3
  <2> QED BY <2>1, <2>6, <2>7, RightStep
<1> QED BY <1>3, <1>4, <1>5, <1>6 DEF EtypeRec

LEMMA SetEndsRight ==
  ASSUME Step, NEW m \in Loaders, SetEnds(m)
  PROVE  RightParts'
<1>1. thread[m].pc = "types" /\ Go(m, "clear") /\ "clear" \in Places
  BY DEF SetEnds, At, Places
<1>2. Quiet(m) /\ m \in Threads
  BY <1>1, RightLoader, SetEndsKeeps
<1>3. HandRight(m)' /\ KnownRight(m)'
  BY <1>1, <1>2, GoneRight DEF InSet
<1> QED BY <1>2, <1>3, QuietRight

LEMMA ClearRight ==
  ASSUME Step, NEW m \in Loaders, Clear(m)
  PROVE  RightParts'
<1> DEFINE types == Range(metatypes[m].types)
           expired == \E e \in types : ~ScopeLives(e.by)
<1>1. /\ thread[m].pc = "clear" /\ LoadInv /\ Stays /\ TypesInv
      /\ m \in Threads /\ m \in DOMAIN metatypes /\ thread[m] \in ThreadRec
      /\ HandRight(m) /\ KnownRight(m)
  BY RightLoader DEF Clear, At
<1>2. CASE ~MetatypeLives(m) \/ expired
  BY <1>2, StillRight DEF Clear, Break
<1>3. CASE MetatypeLives(m) /\ ~expired
  <2>1. /\ metatypes' = [metatypes EXCEPT ![m].types = << >>, ![m].cleared = TRUE]
        /\ etypes' = [e \in DOMAIN etypes |->
                        [etypes[e] EXCEPT !.nodes = IF e \in types THEN << >> ELSE @]]
        /\ GoWith(m, "end", Nothing)
        /\ UNCHANGED <<web, registry, bodies, broke, overwritten>>
    BY <1>3 DEF Clear
  <2>2. /\ Others(m) /\ thread'[m].pc = "end" /\ thread'[m].at = thread[m].at
        /\ thread'[m].known = thread[m].known
    <3>1. "end" \in Places /\ Nothing \in Things
      BY ThingFacts DEF Places
    <3> QED BY <1>1, <2>1, <3>1, GoFacts
  <2>3. HandRight(m)' /\ KnownRight(m)'
    <3>1. HandRight(m)'
      BY <2>2 DEF HandRight, InSet
    <3> QED BY <1>1, <2>2, <3>1, SameKnown
  <2>4. /\ DOMAIN metatypes' = DOMAIN metatypes
        /\ \A n \in DOMAIN metatypes : metatypes'[n].proto = metatypes[n].proto
    BY <1>1, <2>1, Typed DEF MetatypeRec
  <2>5. /\ DOMAIN etypes' = DOMAIN etypes
        /\ \A e \in DOMAIN etypes : etypes'[e].instead = etypes[e].instead
    <3> HIDE DEF types
    <3>1. \A e \in DOMAIN etypes : etypes[e] \in EtypeRec
      BY <1>1 DEF TypesInv
    <3> QED BY <2>1, <3>1 DEF EtypeRec
  <2>6. \A t \in Threads : thread'[t] = thread[t] \/ (HandRight(t)' /\ KnownRight(t)')
    BY <2>2, <2>3 DEF Others
  <2> QED BY <2>1, <2>4, <2>5, <2>6, RightStep
<1> QED BY <1>2, <1>3

LEMMA RightInit == ExternprotoInit => RightInv
<1> SUFFICES ASSUME ExternprotoInit PROVE RightParts
  BY DEF RightInv
<1>1. /\ LoadInv /\ registry = << >> /\ metatypes = << >> /\ etypes = << >>
  BY LoadInit DEF ExternprotoInit
<1>2. DOMAIN registry = {} /\ DOMAIN metatypes = {} /\ DOMAIN etypes = {}
  BY <1>1, EmptySeq
<1>3. ASSUME NEW t \in Threads PROVE HandRight(t) /\ KnownRight(t)
  <2>1. thread[t].pc \in {"idle", "extern"} /\ thread[t].at = 1
    <3>1. web \in Webs /\ thread[t] = Started(t)
      BY DEF ExternprotoInit
    <3>2. t \in DOMAIN web.opened => web.files[web.opened[t]][1].kind = "extern"
      BY <3>1, ExternprotoAssumption
    <3> QED BY <3>1, <3>2 DEF Started
  <2>2. HandRight(t)
    BY <2>1 DEF HandRight, InSet
  <2>3. ASSUME Opens(t)
        PROVE  1 <= Len(StatementsOf(t)) + 1 /\ \A i \in DOMAIN StatementsOf(t) : ~(i < 1)
    BY <1>1, <2>3, OpensFacts
  <2> QED BY <2>1, <2>2, <2>3 DEF KnownRight
<1> QED BY <1>2, <1>3 DEF RightParts

LEMMA RightStepKeeps == LoadInv /\ RightInv /\ [ExternprotoNext]_epVars => RightInv'
<1> SUFFICES ASSUME LoadInv, RightInv, [ExternprotoNext]_epVars, Ordinary' PROVE RightParts'
  BY DEF RightInv
<1>1. Step
  <2>1. LoadInv' /\ Stays
    BY LoadStepKeeps
  <2>2. Ordinary
    BY <2>1, WebStays
  <2> QED BY <2>1, <2>2 DEF RightInv, Step
<1>2. ASSUME NEW t \in Threads, ParserStep(t) PROVE RightParts'
  BY <1>1, <1>2, MakesRight, FindKnownRight, FindNewRight, RegisterRight, NewTypeRight,
     FinishRight, CheckRight, RegisterFirstRight DEF ParserStep
<1>3. ASSUME NEW m \in Loaders, LoaderStep(m) PROVE RightParts'
  BY <1>1, <1>3, FetchRight, FindProtoRight, SetProtoRight, SetTypeRight, SetEndsRight, ClearRight
    DEF LoaderStep
<1>4. CASE UNCHANGED epVars
  BY <1>1, <1>4, StillRight DEF epVars
<1> QED BY <1>2, <1>3, <1>4 DEF ExternprotoNext

(* In whatever order parsers and load threads register PROTOs and          *)
(* metatypes for the same URLs (parse_vrml.h:314, 578), an EXTERNPROTO's   *)
(* type becomes one of the PROTO that its URL means, but where an          *)
(* EXTERNPROTO overwrote the registration, or URLs are resolved, cut off   *)
(* or nested so that they mean two things.                                 *)
THEOREM RightProtoIsSet == ExternprotoSpec => []RightProto
<1>1. ASSUME LoadInv, RightInv PROVE RightProto
  <2>1. CASE ~Ordinary
    BY <2>1 DEF Ordinary, RightProto
  <2>2. CASE Ordinary
    <3>1. SUFFICES ASSUME NEW f \in DOMAIN web.files, NEW t \in Opened(f),
                          NEW i \in 1 .. thread[t].at - 1, StatementsOf(t)[i].kind = "extern"
                   PROVE  LET s == StatementsOf(t)[i]
                              x == thread[t].known[s.name]
                              p == IF x.kind = "proto" THEN x ELSE etypes[x].instead
                          IN  p = Nothing \/ Means(s.url, p) \/ s.url \in overwritten
      BY DEF RightProto
    <3>2. PICK s : s = StatementsOf(t)[i]
      OBVIOUS
    <3>3. PICK x : x = thread[t].known[s.name]
      OBVIOUS
    <3>4. t \in Threads /\ Opens(t) /\ KnownRight(t)
      BY <1>1, <2>2 DEF Opened, Opens, RightInv, RightParts
    <3>5. Knows(t, s, x)
      <4>1. i \in DOMAIN StatementsOf(t) /\ i < thread[t].at
        BY <1>1, <3>4, OpensFacts DEF KnownRight
      <4> QED BY <3>1, <3>2, <3>3, <3>4, <4>1 DEF KnownRight
    <3>6. CASE Right(s.url, x)
      <4>1. x.kind = "proto"
        BY <1>1, <3>6 DEF Right, LoadInv, BodyInv, Thing
      <4> QED BY <3>2, <3>3, <3>6, <4>1 DEF Right
    <3>7. CASE /\ x = Thing("extern", t, <<s.name>>) /\ x \in DOMAIN etypes
               /\ metatypes[etypes[x].of].wants = s.url
      <4>1. x.kind # "proto" /\ TypeRight(x)
        BY <1>1, <2>2, <3>7 DEF RightInv, RightParts, Thing
      <4>2. etypes[x].instead = Nothing \/ Right(s.url, etypes[x].instead)
        BY <3>7, <4>1 DEF TypeRight
      <4> QED BY <3>2, <3>3, <4>1, <4>2 DEF Right
    <3> QED BY <3>5, <3>6, <3>7 DEF Knows
  <2> QED BY <2>1, <2>2
<1>2. ExternprotoSpec => []RightInv
  <2>1. ExternprotoInit => LoadInv /\ RightInv
    BY LoadInit, RightInit
  <2>2. LoadInv /\ RightInv /\ [ExternprotoNext]_epVars => (LoadInv /\ RightInv)'
    BY LoadStepKeeps, RightStepKeeps
  <2> QED BY <2>1, <2>2, PTL DEF ExternprotoSpec
<1>3. LoadInv /\ RightInv => RightProto
  BY <1>1
<1> QED BY <1>2, <1>3, LoadsGoWell, PTL
=============================================================================
