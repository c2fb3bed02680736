-------------------------- MODULE MMLifecycle_proofs --------------------------
(***************************************************************************)
(* What holds of the program from its command line to its end, for every   *)
(* set of editions and types, every number of tries and every bound: what  *)
(* it opens and closes, what it knows of the modem, and the types it keeps. *)
(***************************************************************************)
EXTENDS MMLifecycle, FiniteSetTheorems, SequenceTheorems, TLAPS

Offline == {"exited", "options", "database", "connect"}

\* Outside of a connection the port is closed and the modem is not spoken to; a command is
\* being sent in init_modem only, and a response awaited there and in mm_connection_wait.
InPlace ==
    /\ pc \in Offline => rx = <<>> /\ cmds = <<>> /\ line = "idle" /\ saying = None
    /\ command = IF pc \in {"reset", "init"} THEN pc ELSE None
    /\ left > 0 => pc \in {"reset", "init", "wait"}
    /\ pc = "wait" => left > 0
    /\ left = 0 => buf = None
    /\ testing => line = "idle"

\* The pieces of a line are together: the rest comes right behind the first.
Follows(i) ==
    IF i < Len(rx) THEN rx[i + 1].word = rx[i].word /\ rx[i + 1].part = "tail"
    ELSE saying = rx[i].word
Paired ==
    /\ \A i \in 1..Len(rx) : rx[i].part = "head" => Follows(i)
    /\ buf # None =>
           IF rx = <<>> THEN saying = buf ELSE rx[1].word = buf /\ rx[1].part = "tail"

\* A word is in the port, and will be read as what it is.
Readable(w, i) == rx[i].word = w /\ rx[i].part \in {"line", "head"}
Heard(w) == buf = w \/ \E i \in 1..Len(rx) : Readable(w, i)

\* The modem in a call has its CONNECT still to be read, if it was not missed: a try of a
\* command has ended that the next will count as missed, or reading failed.
Noticed ==
    line = "up" /\ pc \in {"reset", "init", "loop", "wait"} =>
        \/ missed \/ Heard("CONNECT")
        \/ pc \in {"reset", "init"} /\ left = 0
        \/ pc = "loop" /\ ~running /\ (saying # None \/ rx # <<>>)

\* Unless an answer came late: only the last command may be answered still, an OK that can be
\* read is the answer to it, and there is one.
AllOld == \A i \in 1..Len(cmds) : cmds[i].old
Current ==
    ~late /\ ~testing =>
        /\ \A i \in 1..Len(cmds) : ~cmds[i].old =>
               i = Len(cmds) /\ cmds[i].text = command
        /\ command # None =>
               /\ Heard("OK") => config = command /\ AllOld
               /\ \A i, j \in 1..Len(rx) :
                      Readable("OK", i) => buf # "OK" /\ (Readable("OK", j) => i = j)

Ready ==
    ~late /\ ~testing /\ pc \in {"loop", "wait", "call", "hangup"} => config = "init"

ModemInv == InPlace /\ Paired /\ Noticed /\ Current /\ Ready

\* Every name means an object of its kind.
Names(objs, c) == \A l \in Locals : c[l] # 0 => c[l] \in 1..Len(objs) /\ objs[c[l]].kind = l

\* Nothing is closed as long as the program runs, an option not given twice has its object
\* under its name, and what the later steps open is not open yet.
InUse(k) ==
    /\ k \in Repeatable => k \in given
    /\ k = "udp" => send_udp
    /\ k = "database" => pc \notin {"options", "database"}
    /\ k \in {"file", "port"} => pc \notin Offline
Running ==
    pc # "exited" =>
        /\ Names(objects, cur) /\ ending = "none"
        /\ send_udp => "udp" \in given
        /\ \A i \in 1..Len(objects) :
               /\ objects[i].closed = 0
               /\ objects[i].kind \notin again => cur[objects[i].kind] = i
               /\ InUse(objects[i].kind)

\* Room for what is opened next; a modem is waited for when it was opened.
Counted ==
    /\ pc \in {"options", "database"} => Len(objects) <= MaxOptions
    /\ pc = "connect" => Len(objects) <= MaxOptions + 1
    /\ pc \in {"loop", "wait", "call", "hangup"} => opened = "yes"

ObjectTypeOK == objects \in Seq(Objects) /\ cur \in [Locals -> 0..(MaxOptions + 2)]
ObjectInv == Running /\ Counted /\ ClosedOnce /\ EndsClosed

\* The inductive invariant.
IInv == TypeOK /\ ModemInv /\ ObjectInv

----------------------------------------------------------------------------
(* What is opened and closed. *)

\* Closing some names closes the objects they mean, once.
LEMMA Closing ==
    ASSUME NEW objs \in Seq(Objects), NEW c \in [Locals -> Nat], NEW names \in SUBSET Locals,
           Names(objs, c)
    PROVE  LET d == ClosedIn(objs, c, names)
           IN  /\ d \in Seq([kind : ObjectKinds, closed : Nat])
               /\ Len(d) = Len(objs)
               /\ \A i \in 1..Len(objs) :
                      /\ d[i].kind = objs[i].kind
                      /\ objs[i].kind \in names /\ c[objs[i].kind] = i =>
                             d[i].closed = objs[i].closed + 1
                      /\ ~(objs[i].kind \in names /\ c[objs[i].kind] = i) =>
                             d[i].closed = objs[i].closed
<1> DEFINE d == ClosedIn(objs, c, names)
           n(i) == Cardinality({l \in names : c[l] = i})
<1> HIDE DEF d, n
<1>1. ASSUME NEW i \in 1..Len(objs)
      PROVE  /\ objs[i].kind \in ObjectKinds /\ objs[i].closed \in Nat
             /\ objs[i] \in Objects
             /\ objs[i].kind \in names /\ c[objs[i].kind] = i => n(i) = 1
             /\ ~(objs[i].kind \in names /\ c[objs[i].kind] = i) => n(i) = 0
  <2>1. objs[i] \in Objects
    BY ElementOfSeq
  <2>2. objs[i].kind \in ObjectKinds /\ objs[i].closed \in Nat
    BY <2>1 DEF Objects
  <2>3. \A l \in names : c[l] = i => l = objs[i].kind
    BY DEF Names
  <2>4. CASE objs[i].kind \in names /\ c[objs[i].kind] = i
    <3>1. {l \in names : c[l] = i} = {objs[i].kind}
      BY <2>3, <2>4
    <3> QED
      BY <2>1, <2>2, <2>4, <3>1, FS_Singleton DEF n
  <2>5. CASE ~(objs[i].kind \in names /\ c[objs[i].kind] = i)
    <3>1. {l \in names : c[l] = i} = {}
      BY <2>3, <2>5
    <3> QED
      BY <2>1, <2>2, <2>5, <3>1, FS_EmptySet DEF n
  <2> QED
    BY <2>4, <2>5
<1>2. d = [i \in 1..Len(objs) |-> [objs[i] EXCEPT !.closed = @ + n(i)]]
  BY DEF ClosedIn, d, n
<1>3. ASSUME NEW i \in 1..Len(objs)
      PROVE  /\ d[i].kind = objs[i].kind /\ d[i].closed = objs[i].closed + n(i)
             /\ d[i] \in [kind : ObjectKinds, closed : Nat]
  <2>1. objs[i] = [kind |-> objs[i].kind, closed |-> objs[i].closed]
    BY <1>1 DEF Objects
  <2>2. [objs[i] EXCEPT !.closed = @ + n(i)]
            = [kind |-> objs[i].kind, closed |-> objs[i].closed + n(i)]
    BY <2>1
  <2>3. d[i] = [kind |-> objs[i].kind, closed |-> objs[i].closed + n(i)]
    BY <1>2, <2>2
  <2>4. n(i) \in {0, 1}
    BY <1>1
  <2>5. objs[i].kind \in ObjectKinds /\ objs[i].closed + n(i) \in Nat
    BY <1>1, <2>4
  <2> QED
    BY <2>3, <2>5
<1>4. Len(objs) \in Nat
  BY LenProperties
<1>5. DOMAIN d = 1..Len(objs) /\ d = [i \in 1..Len(objs) |-> d[i]]
  BY <1>2
<1>6. d \in Seq([kind : ObjectKinds, closed : Nat]) /\ Len(d) = Len(objs)
  BY <1>3, <1>4, <1>5, SeqDef, LenProperties
<1>7. ASSUME NEW i \in 1..Len(objs)
      PROVE  /\ d[i].kind = objs[i].kind
             /\ objs[i].kind \in names /\ c[objs[i].kind] = i => d[i].closed = objs[i].closed + 1
             /\ ~(objs[i].kind \in names /\ c[objs[i].kind] = i) => d[i].closed = objs[i].closed
  BY <1>1, <1>3
<1> QED
  BY <1>6, <1>7 DEF d

\* mm_shutdown closes the i-th object, which is of kind k.
Closes(k, c, i) == k \in ShutdownNames /\ c[k] = i

\* What mm_shutdown closes is open, or may be closed again; and it closes all that is open.
LEMMA ShutdownEnds ==
    ASSUME NEW objs \in Seq(Objects), NEW c \in [Locals -> Nat],
           Shutdown(objs, c), Names(objs, c),
           \A i \in 1..Len(objs) :
               /\ objs[i].closed <= 1
               /\ objs[i].closed = 1 /\ Closes(objs[i].kind, c, i) =>
                      \/ objs[i].kind \in Streams \cup {"udp"} /\ opened' = "failed"
                      \/ objs[i].kind = "udp" /\ "udp" \in again'
               /\ objs[i].closed = 0 /\ ~Closes(objs[i].kind, c, i) => objs[i].kind \in again'
    PROVE  ObjectTypeOK' /\ ObjectInv'
<1> DEFINE d == ClosedIn(objs, c, ShutdownNames)
<1>1. objects' = d /\ pc' = "exited" /\ ending' = "shutdown" /\ cur' = NoObjects
  BY DEF Shutdown
<1>2. ShutdownNames \in SUBSET Locals
  BY DEF ShutdownNames, CloseNames, Locals
<1> HIDE DEF d
<1>3. /\ d \in Seq([kind : ObjectKinds, closed : Nat])
      /\ Len(d) = Len(objs) /\ Len(d) \in Nat
      /\ \A i \in 1..Len(objs) :
             /\ d[i].kind = objs[i].kind
             /\ objs[i].kind \in ShutdownNames /\ c[objs[i].kind] = i =>
                    d[i].closed = objs[i].closed + 1
             /\ ~(objs[i].kind \in ShutdownNames /\ c[objs[i].kind] = i) =>
                    d[i].closed = objs[i].closed
  BY <1>2, Closing, LenProperties DEF d
<1>4. ASSUME NEW i \in 1..Len(d)
      PROVE  /\ d[i] \in Objects
             /\ d[i].closed > 1 =>
                    \/ d[i].kind \in Streams \cup {"udp"} /\ opened' = "failed"
                    \/ d[i].kind = "udp" /\ "udp" \in again'
             /\ d[i].closed = 0 => d[i].kind \in again'
  <2>1. d[i] \in [kind : ObjectKinds, closed : Nat]
    BY <1>3, ElementOfSeq
  <2>2. objs[i] \in Objects
    BY <1>3, ElementOfSeq
  <2>3. objs[i].closed \in {0, 1}
    BY <1>3, <2>2 DEF Objects
  <2>4. d[i].closed \in {objs[i].closed, objs[i].closed + 1} /\ d[i].kind \in ObjectKinds
    BY <1>3, <2>1
  <2>5. d[i] \in Objects
    BY <2>1, <2>3, <2>4 DEF Objects
  <2> QED
    BY <1>3, <2>3, <2>5 DEF Closes
<1>5. d \in Seq(Objects)
  BY <1>3, <1>4, SeqDef, LenProperties
<1>6. cur' \in [Locals -> 0..(MaxOptions + 2)]
  BY <1>1, LifecycleAssumption DEF NoObjects
<1>7. ClosedOnce' /\ EndsClosed'
  BY <1>1, <1>4 DEF ClosedOnce, EndsClosed
<1>8. Running' /\ Counted'
  BY <1>1 DEF Running, Counted
<1> QED
  BY <1>1, <1>5, <1>6, <1>7, <1>8 DEF ObjectInv, ObjectTypeOK

\* As long as the program runs everything is open.
LEMMA AllOpen ==
    ASSUME TypeOK, ObjectInv, pc # "exited"
    PROVE  /\ objects \in Seq(Objects) /\ Len(objects) \in Nat
           /\ cur \in [Locals -> Nat] /\ DOMAIN cur = Locals
           /\ Names(objects, cur) /\ ending = "none" /\ (send_udp => "udp" \in given)
           /\ \A i \in 1..Len(objects) :
                  /\ objects[i].kind \in ObjectKinds /\ objects[i].closed = 0
                  /\ objects[i].kind \notin again => cur[objects[i].kind] = i
                  /\ InUse(objects[i].kind)
<1>1. objects \in Seq(Objects) /\ Len(objects) \in Nat
  BY LenProperties DEF TypeOK
<1>2. \A i \in 1..Len(objects) : objects[i] \in Objects
  BY <1>1, ElementOfSeq
<1>3. \A i \in 1..Len(objects) : objects[i].kind \in ObjectKinds
  BY <1>2 DEF Objects
<1>4. cur \in [Locals -> Nat]
  BY LifecycleAssumption DEF TypeOK
<1> QED
  BY <1>1, <1>3, <1>4 DEF ObjectInv, Running

\* A step that opens, closes and ends nothing keeps what is open.
LEMMA NothingOpened ==
    ASSUME TypeOK, ObjectInv, UNCHANGED <<objVars, optVars, ending>>,
           pc # "exited", pc' # "exited",
           \A l \in ObjectKinds : InUse(l) => InUse(l)',
           Counted'
    PROVE  ObjectTypeOK' /\ ObjectInv'
<1>1. UNCHANGED <<objects, cur, send_udp, given, again, ending>>
  BY DEF objVars, optVars
<1>2. Running'
  <2>1. \A i \in 1..Len(objects) : InUse(objects'[i].kind)
    BY <1>1, AllOpen
  <2>2. \A i \in 1..Len(objects) : objects'[i].kind \in ObjectKinds
    BY <1>1, AllOpen
  <2> QED
    BY <1>1, <2>1, <2>2, AllOpen DEF Running, Names, InUse
<1>3. ClosedOnce' /\ EndsClosed'
  BY <1>1, AllOpen DEF ClosedOnce, EndsClosed
<1> QED
  BY <1>1, <1>2, <1>3 DEF ObjectInv, ObjectTypeOK, TypeOK

\* An option, mm_open_database or mm_connection_open opens something new.
LEMMA OneOpened ==
    ASSUME TypeOK, ObjectInv, NEW k \in ObjectKinds,
           objects' = Opened(objects, k), cur' = [cur EXCEPT ![k] = New],
           pc # "exited", pc' # "exited", ending' = ending, Len(objects) <= MaxOptions + 1,
           given \subseteq given', again \subseteq again', send_udp => send_udp',
           send_udp' => "udp" \in given',
           InUse(k)', k \notin again' => k \notin again /\ \A i \in 1..Len(objects) :
                                                            objects[i].kind # k,
           \A l \in ObjectKinds : InUse(l) => InUse(l)',
           Len(objects') = Len(objects) + 1 => Counted'
    PROVE  ObjectTypeOK' /\ ObjectInv'
<1> DEFINE x == [kind |-> k, closed |-> 0]
<1>1. x \in Objects /\ x.kind = k /\ x.closed = 0
  BY DEF Objects
<1> HIDE DEF x
<1>2. objects' = Append(objects, x)
  BY DEF Opened, x
<1>3. /\ objects' \in Seq(Objects) /\ Len(objects') = Len(objects) + 1
      /\ \A i \in 1..Len(objects) : objects'[i] = objects[i]
      /\ objects'[Len(objects) + 1] = x
  BY <1>1, <1>2, AllOpen, AppendProperties
<1>4. New = Len(objects) + 1 /\ Len(objects) \in Nat /\ k \in Locals
  BY AllOpen DEF New, ObjectKinds, Locals
<1>5. New \in 0..(MaxOptions + 2)
  BY <1>4, LifecycleAssumption
<1>6. cur' \in [Locals -> 0..(MaxOptions + 2)]
  BY <1>4, <1>5 DEF TypeOK
<1>7. /\ cur'[k] = New
      /\ \A l \in Locals : l # k => cur'[l] = cur[l]
  BY <1>4, AllOpen
<1>8. Names(objects', cur')
  <2>1. ASSUME NEW l \in Locals, cur'[l] # 0
        PROVE  cur'[l] \in 1..Len(objects') /\ objects'[cur'[l]].kind = l
    <3>1. CASE l = k
      BY <1>1, <1>3, <1>4, <1>7, <3>1
    <3>2. CASE l # k
      <4>1. cur[l] \in 1..Len(objects) /\ objects[cur[l]].kind = l
        BY <1>7, <2>1, <3>2, AllOpen DEF Names
      <4> QED
        BY <1>3, <1>4, <1>7, <3>2, <4>1
    <3> QED
      BY <3>1, <3>2
  <2> QED
    BY <2>1 DEF Names
<1>9. ASSUME NEW i \in 1..Len(objects')
      PROVE  /\ objects'[i].closed = 0
             /\ objects'[i].kind \notin again' => cur'[objects'[i].kind] = i
             /\ \A l \in ObjectKinds : objects'[i].kind = l => InUse(l)'
             /\ objects'[i].kind \in ObjectKinds
  <2>1. CASE i = Len(objects) + 1
    BY <1>1, <1>3, <1>4, <1>7, <2>1
  <2>2. CASE i # Len(objects) + 1
    <3>1. i \in 1..Len(objects) /\ objects'[i] = objects[i]
      BY <1>3, <1>4, <2>2
    <3>2. objects[i].kind \in Locals
      BY <3>1, AllOpen DEF ObjectKinds, Locals
    <3>3. objects[i].kind \notin again' => objects[i].kind # k
      BY <3>1
    <3>4. \A l \in ObjectKinds : objects[i].kind = l => InUse(l)'
      BY <3>1, AllOpen
    <3> QED
      BY <1>7, <3>1, <3>2, <3>3, <3>4, AllOpen
  <2> QED
    BY <2>1, <2>2
<1>10. Running'
  BY <1>8, <1>9, AllOpen DEF Running, Names, InUse
<1>11. ClosedOnce' /\ EndsClosed'
  BY <1>9, AllOpen DEF ClosedOnce, EndsClosed
<1> QED
  BY <1>3, <1>6, <1>10, <1>11 DEF ObjectInv, ObjectTypeOK

----------------------------------------------------------------------------
(* How the program ends. *)

\* What no option replaced is closed by its name.
LEMMA AllClose ==
    ASSUME TypeOK, ObjectInv, pc # "exited", NEW i \in 1..Len(objects),
           objects[i].kind \notin again
    PROVE  Closes(objects[i].kind, cur, i)
<1>1. objects[i].kind \in ObjectKinds /\ cur[objects[i].kind] = i /\ InUse(objects[i].kind)
  BY AllOpen
<1>2. objects[i].kind \in ShutdownNames
  BY <1>1 DEF ObjectKinds, InUse, ShutdownNames, CloseNames
<1> QED
  BY <1>1, <1>2 DEF Closes

\* With all it has opened.
LEMMA EndsWell ==
    ASSUME TypeOK, ObjectInv, pc # "exited", Shutdown(objects, cur), again' = again
    PROVE  ObjectTypeOK' /\ ObjectInv'
<1>1. \A i \in 1..Len(objects) :
          objects[i].closed = 0 /\ (~Closes(objects[i].kind, cur, i) => objects[i].kind \in again')
  BY AllOpen, AllClose
<1> QED
  BY <1>1, AllOpen, ShutdownEnds

\* At an option: what it opened is closed already, or was not opened at all.
LEMMA OptionFails ==
    ASSUME TypeOK, ObjectInv, NEW k \in Repeatable, Option(k), NEW objs, NEW n,
           \/ objs = objects /\ n = 0
           \/ /\ objs = Append(objects, [kind |-> k, closed |-> 1])
              /\ n = 0 \/ (k = "udp" /\ n = New),
           Shutdown(objs, [cur EXCEPT ![k] = n])
    PROVE  ObjectTypeOK' /\ ObjectInv'
<1> DEFINE c == [cur EXCEPT ![k] = n]
           x == [kind |-> k, closed |-> 1]
<1>1. pc = "options" /\ again \subseteq again' /\ (k \in given => k \in again')
  BY DEF Option
<1>2. x \in Objects /\ x.kind = k /\ x.closed = 1
  BY DEF Objects, ObjectKinds, Repeatable
<1>3. New = Len(objects) + 1 /\ Len(objects) \in Nat
  BY <1>1, AllOpen DEF New
<1>4. c \in [Locals -> Nat] /\ c[k] = n /\ \A l \in Locals : l # k => c[l] = cur[l]
  BY <1>1, <1>3, AllOpen DEF Repeatable, Locals
<1> HIDE DEF c, x
<1>5. /\ objs \in Seq(Objects) /\ Len(objs) \in {Len(objects), Len(objects) + 1}
      /\ \A i \in 1..Len(objects) : objs[i] = objects[i]
      /\ Len(objs) # Len(objects) => objs[Len(objects) + 1] = x
      /\ n # 0 => Len(objs) = Len(objects) + 1
  <2>1. CASE objs = objects /\ n = 0
    BY <1>1, <1>3, <2>1, AllOpen
  <2>2. CASE objs = Append(objects, x)
    BY <1>1, <1>2, <1>3, <2>2, AllOpen, AppendProperties
  <2> QED
    BY <2>1, <2>2 DEF x
<1>6. Names(objs, c)
  <2>1. ASSUME NEW l \in Locals, c[l] # 0
        PROVE  c[l] \in 1..Len(objs) /\ objs[c[l]].kind = l
    <3>1. CASE l = k
      <4>1. n = New /\ k = "udp"
        BY <1>4, <2>1, <3>1
      <4> QED
        BY <1>2, <1>3, <1>4, <1>5, <2>1, <3>1, <4>1
    <3>2. CASE l # k
      <4>1. c[l] = cur[l]
        BY <1>4, <3>2
      <4>2. cur[l] \in 1..Len(objects) /\ objects[cur[l]].kind = l
        BY <1>1, <2>1, <4>1, AllOpen DEF Names
      <4> QED
        BY <1>3, <1>5, <4>1, <4>2
    <3> QED
      BY <3>1, <3>2
  <2> QED
    BY <2>1 DEF Names
<1>7. ASSUME NEW i \in 1..Len(objs)
      PROVE  /\ objs[i].closed <= 1
             /\ objs[i].closed = 1 /\ Closes(objs[i].kind, c, i) =>
                    objs[i].kind = "udp" /\ "udp" \in again'
             /\ objs[i].closed = 0 /\ ~Closes(objs[i].kind, c, i) => objs[i].kind \in again'
  <2>1. CASE i \in 1..Len(objects)
    <3>1. objs[i] = objects[i] /\ objects[i].closed = 0 /\ objects[i].kind \in ObjectKinds
      BY <1>1, <1>5, <2>1, AllOpen
    <3>2. CASE objects[i].kind = k
      <4>1. k \in again'
        BY <1>1, <2>1, <3>2, AllOpen DEF InUse
      <4> QED
        BY <3>1, <3>2, <4>1
    <3>3. CASE objects[i].kind # k
      <4>1. c[objects[i].kind] = cur[objects[i].kind]
        BY <1>4, <3>1, <3>3 DEF ObjectKinds, Locals
      <4>2. objects[i].kind \notin again => Closes(objects[i].kind, c, i)
        BY <1>1, <2>1, <4>1, AllClose DEF Closes
      <4> QED
        BY <1>1, <3>1, <4>2
    <3> QED
      BY <3>2, <3>3
  <2>2. CASE i \notin 1..Len(objects)
    <3>1. i = Len(objects) + 1 /\ objs[i] = x
      BY <1>3, <1>5, <2>2
    <3>2. c[k] = i => k = "udp"
      BY <1>3, <1>4, <3>1
    <3>3. "udp" \in ShutdownNames => send_udp
      BY DEF ShutdownNames, CloseNames
    <3>4. k = "udp" /\ send_udp => "udp" \in again'
      BY <1>1, AllOpen
    <3> QED
      BY <1>2, <3>1, <3>2, <3>3, <3>4 DEF Closes
  <2> QED
    BY <2>1, <2>2
<1>8. Shutdown(objs, c)
  BY DEF c
<1> QED
  BY <1>4, <1>5, <1>6, <1>7, <1>8, ShutdownEnds

\* In mm_connection_open: what mm_connection_close has closed is closed again.
LEMMA ConnectionEnds ==
    ASSUME TypeOK, ObjectInv, pc # "exited", ConnectionFails(objects, cur), again' = again
    PROVE  ObjectTypeOK' /\ ObjectInv'
<1> DEFINE d == ClosedIn(objects, cur, CloseNames)
<1>1. CloseNames \in SUBSET Locals
  BY DEF CloseNames, Locals
<1> HIDE DEF d
<1>2. /\ d \in Seq([kind : ObjectKinds, closed : Nat])
      /\ Len(d) = Len(objects) /\ Len(d) \in Nat
      /\ \A i \in 1..Len(objects) :
             /\ d[i].kind = objects[i].kind
             /\ objects[i].kind \in CloseNames /\ cur[objects[i].kind] = i =>
                    d[i].closed = objects[i].closed + 1
             /\ ~(objects[i].kind \in CloseNames /\ cur[objects[i].kind] = i) =>
                    d[i].closed = objects[i].closed
  BY <1>1, AllOpen, Closing DEF d
<1>3. Forgotten(cur) \in [Locals -> Nat]
      /\ Forgotten(cur)["port"] = 0
      /\ \A l \in Locals : l # "port" => Forgotten(cur)[l] = cur[l]
  BY AllOpen DEF Forgotten, Locals
<1>4. Names(d, Forgotten(cur))
  BY <1>2, <1>3, AllOpen DEF Names
<1>5. ASSUME NEW i \in 1..Len(d)
      PROVE  /\ d[i] \in Objects /\ d[i].closed <= 1
             /\ d[i].closed = 1 /\ Closes(d[i].kind, Forgotten(cur), i) =>
                    d[i].kind \in Streams \cup {"udp"}
             /\ d[i].closed = 0 /\ ~Closes(d[i].kind, Forgotten(cur), i) => d[i].kind \in again'
  <2>1. /\ i \in 1..Len(objects) /\ objects[i].kind = d[i].kind /\ objects[i].closed = 0
        /\ d[i].kind \in ObjectKinds
    BY <1>2, AllOpen
  <2>2. d[i].closed \in {0, 1}
    BY <1>2, <2>1
  <2>3. d[i] \in Objects
    <3>1. d[i] \in [kind : ObjectKinds, closed : Nat]
      BY <1>2, ElementOfSeq
    <3> QED
      BY <2>2, <3>1 DEF Objects
  <2>4. d[i].closed = 1 => d[i].kind \in CloseNames
    BY <1>2, <2>1
  <2>5. ASSUME Closes(d[i].kind, Forgotten(cur), i)
        PROVE  d[i].kind # "port"
    BY <1>2, <1>3, <2>5 DEF Closes
  <2>6. d[i].kind \notin again => Closes(d[i].kind, cur, i)
    BY <2>1, AllClose
  <2>7. ASSUME d[i].closed = 0, Closes(d[i].kind, cur, i)
        PROVE  Closes(d[i].kind, Forgotten(cur), i)
    <3>1. d[i].kind \notin CloseNames
      BY <1>2, <2>1, <2>7 DEF Closes
    <3> QED
      BY <1>3, <2>1, <2>7, <3>1 DEF Closes, CloseNames, ObjectKinds, Locals
  <2> QED
    BY <2>2, <2>3, <2>4, <2>5, <2>6, <2>7 DEF CloseNames, Streams
<1>6. d \in Seq(Objects)
  BY <1>2, <1>5, SeqDef, LenProperties
<1>7. Shutdown(d, Forgotten(cur)) /\ opened' = "failed"
  BY DEF ConnectionFails, d
<1> QED
  BY <1>3, <1>4, <1>5, <1>6, <1>7, ShutdownEnds

----------------------------------------------------------------------------
(* What each step does to what is opened. *)

\* The options.
LEMMA OptionsKeepObjects ==
    ASSUME TypeOK, ObjectInv, Options
    PROVE  ObjectTypeOK' /\ ObjectInv'
<1>1. pc = "options" /\ pc # "exited" /\ Len(objects) <= MaxOptions
  BY DEF Options, OptionLog, OptionPcap, OptionUdp, Option, OptionModem, OptionsEnd,
         OptionsLeave, OptionsDone, ObjectInv, Counted
<1>2. Len(objects) \in Nat /\ MaxOptions \in Nat
  BY <1>1, AllOpen, LifecycleAssumption
<1>3. ASSUME NEW k \in Repeatable, Option(k), objects' = Opened(objects, k),
             cur' = [cur EXCEPT ![k] = New], pc' = pc, ending' = ending,
             IF k = "udp" THEN send_udp' = TRUE ELSE send_udp' = send_udp
      PROVE  ObjectTypeOK' /\ ObjectInv'
  <2>1. /\ k \in ObjectKinds /\ Len(objects) < MaxOptions /\ k \in given'
        /\ given \subseteq given' /\ again \subseteq again' /\ (k \in given => k \in again')
    BY <1>3 DEF Option, Repeatable, ObjectKinds
  <2>2. send_udp => send_udp'
    BY <1>3 DEF TypeOK
  <2>3. send_udp' => "udp" \in given'
    BY <1>1, <1>3, <2>1, AllOpen
  <2>4. InUse(k)' /\ \A l \in ObjectKinds : InUse(l) => InUse(l)'
    BY <1>3, <2>1, <2>2 DEF InUse, Repeatable
  <2>5. k \notin again' => k \notin again /\ \A i \in 1..Len(objects) : objects[i].kind # k
    BY <1>1, <2>1, AllOpen DEF InUse
  <2>6. Len(objects') = Len(objects) + 1 => Counted'
    BY <1>1, <1>2, <1>3, <2>1 DEF Counted
  <2>7. Len(objects) <= MaxOptions + 1 /\ pc' # "exited"
    BY <1>1, <1>2, <1>3
  <2> QED
    BY <1>1, <1>3, <2>1, <2>2, <2>3, <2>4, <2>5, <2>6, <2>7, OneOpened
<1>4. CASE OptionLog
  <2>1. CASE Shutdown(objects, [cur EXCEPT !["log"] = 0])
    BY <1>4, <2>1, OptionFails DEF OptionLog, Repeatable
  <2>2. CASE objects' = Opened(objects, "log")
    <3>1. /\ cur' = [cur EXCEPT !["log"] = New] /\ Option("log")
          /\ pc' = pc /\ ending' = ending /\ send_udp' = send_udp
          \/ Shutdown(objects, [cur EXCEPT !["log"] = 0])
      BY <1>4 DEF OptionLog, mainVars, endVars
    <3> QED
      BY <1>3, <2>1, <2>2, <3>1 DEF Repeatable
  <2> QED
    BY <1>4, <2>1, <2>2 DEF OptionLog
<1>5. CASE OptionPcap
  <2>1. CASE \/ Shutdown(objects, [cur EXCEPT !["pcap"] = 0])
             \/ Shutdown(Append(objects, [kind |-> "pcap", closed |-> 1]),
                         [cur EXCEPT !["pcap"] = 0])
    BY <1>5, <2>1, OptionFails DEF OptionPcap, Repeatable
  <2>2. CASE /\ objects' = Opened(objects, "pcap") /\ cur' = [cur EXCEPT !["pcap"] = New]
             /\ UNCHANGED <<mainVars, typeVars, starts, endVars, send_udp>>
    <3>1. Option("pcap") /\ pc' = pc /\ ending' = ending
      BY <1>5, <2>2 DEF OptionPcap, mainVars, endVars
    <3> QED
      BY <1>3, <2>2, <3>1 DEF Repeatable
  <2> QED
    BY <1>5, <2>1, <2>2 DEF OptionPcap
<1>6. CASE OptionUdp
  <2>1. CASE \/ Shutdown(objects, [cur EXCEPT !["udp"] = 0])
             \/ Shutdown(Append(objects, [kind |-> "udp", closed |-> 1]),
                         [cur EXCEPT !["udp"] = New])
    BY <1>6, <2>1, OptionFails DEF OptionUdp, Repeatable
  <2>2. CASE /\ ~send_udp /\ send_udp' = TRUE
             /\ objects' = Opened(objects, "udp") /\ cur' = [cur EXCEPT !["udp"] = New]
             /\ UNCHANGED <<mainVars, typeVars, starts, endVars>>
    <3>1. Option("udp") /\ pc' = pc /\ ending' = ending
      BY <1>6, <2>2 DEF OptionUdp, mainVars, endVars
    <3> QED
      BY <1>3, <2>2, <3>1 DEF Repeatable
  <2> QED
    BY <1>6, <2>1, <2>2 DEF OptionUdp
<1>7. CASE OptionModem
  <2>1. pc' = pc /\ UNCHANGED <<objVars, optVars, ending>>
    BY <1>7 DEF OptionModem, mainVars, endVars
  <2>2. Counted' /\ \A l \in ObjectKinds : InUse(l) => InUse(l)'
    BY <1>1, <2>1 DEF Counted, InUse, objVars, optVars
  <2> QED
    BY <1>1, <2>1, <2>2, NothingOpened
<1>8. CASE OptionsEnd
  BY <1>1, <1>8, EndsWell DEF OptionsEnd, optVars
<1>9. CASE OptionsLeave
  <2>1. pc' = "exited" /\ ending' = "left" /\ UNCHANGED <<objects, cur>>
    BY <1>9 DEF OptionsLeave, objVars
  <2> QED
    BY <1>1, <2>1, AllOpen
    DEF ObjectTypeOK, TypeOK, ObjectInv, Running, Counted, ClosedOnce, EndsClosed
<1>10. CASE OptionsDone
  <2>1. pc' = "database" /\ UNCHANGED <<objVars, optVars, ending>>
    BY <1>10 DEF OptionsDone, endVars
  <2>2. Counted' /\ \A l \in ObjectKinds : InUse(l) => InUse(l)'
    BY <1>1, <2>1 DEF Counted, InUse, objVars, optVars, Offline
  <2> QED
    BY <1>1, <2>1, <2>2, NothingOpened
<1> QED
  BY <1>4, <1>5, <1>6, <1>7, <1>8, <1>9, <1>10 DEF Options

\* The steps of main that open something, or end.
LEMMA MainOpens ==
    ASSUME TypeOK, InPlace, ObjectInv,
           OpenDatabase \/ DatabaseFails \/ ConnectFails \/ Connect \/ CommandEnds \/ MainEnds
           \/ EndOfFile
    PROVE  ObjectTypeOK' /\ ObjectInv'
<1>1. MaxOptions \in Nat
  BY LifecycleAssumption
<1>2. CASE OpenDatabase
  <2>1. /\ pc = "database" /\ pc' = "connect"
        /\ objects' = Opened(objects, "database") /\ cur' = [cur EXCEPT !["database"] = New]
        /\ UNCHANGED <<send_udp, given, again, ending>>
    BY <1>2 DEF OpenDatabase, optVars, endVars
  <2>2. Len(objects) \in Nat /\ Len(objects) <= MaxOptions
    BY <2>1, AllOpen DEF ObjectInv, Counted
  <2>3. \A i \in 1..Len(objects) : objects[i].kind # "database"
    BY <2>1, AllOpen DEF InUse
  <2>4. InUse("database")' /\ \A l \in ObjectKinds : InUse(l) => InUse(l)'
    BY <2>1 DEF InUse, Repeatable, Offline
  <2>5. Len(objects') = Len(objects) + 1 => Counted'
    BY <1>1, <2>1, <2>2 DEF Counted
  <2>6. send_udp' => "udp" \in given'
    BY <2>1, AllOpen
  <2> QED
    BY <1>1, <2>1, <2>2, <2>3, <2>4, <2>5, <2>6, OneOpened DEF ObjectKinds
<1>3. CASE DatabaseFails
  <2> DEFINE x == [kind |-> "database", closed |-> 1]
             objs == Append(objects, x)
  <2>1. pc = "database" /\ again' = again /\ Shutdown(objs, cur)
    BY <1>3 DEF DatabaseFails, optVars
  <2>2. x \in Objects /\ x.kind = "database" /\ x.closed = 1
    BY DEF Objects, ObjectKinds
  <2> HIDE DEF x
  <2>3. /\ objs \in Seq(Objects) /\ Len(objs) = Len(objects) + 1 /\ Len(objects) \in Nat
        /\ \A i \in 1..Len(objects) : objs[i] = objects[i]
        /\ objs[Len(objects) + 1] = x
    BY <2>1, <2>2, AllOpen, AppendProperties
  <2> HIDE DEF objs
  <2>4. Names(objs, cur)
    BY <2>1, <2>3, AllOpen DEF Names
  <2>5. ASSUME NEW i \in 1..Len(objs)
        PROVE  /\ objs[i].closed <= 1
               /\ objs[i].closed = 1 => ~Closes(objs[i].kind, cur, i)
               /\ objs[i].closed = 0 /\ ~Closes(objs[i].kind, cur, i) => objs[i].kind \in again'
    <3>1. CASE i \in 1..Len(objects)
      BY <2>1, <2>3, <3>1, AllOpen, AllClose
    <3>2. CASE i \notin 1..Len(objects)
      <4>1. i = Len(objects) + 1
        BY <2>3, <3>2
      <4>2. cur["database"] # i
        BY <2>1, <2>3, <4>1, AllOpen DEF Names, Locals
      <4> QED
        BY <2>2, <2>3, <4>1, <4>2 DEF Closes
    <3> QED
      BY <3>1, <3>2
  <2>6. cur \in [Locals -> Nat]
    BY <2>1, AllOpen
  <2> QED
    BY <2>1, <2>3, <2>4, <2>5, <2>6, ShutdownEnds
<1>4. CASE ConnectFails
  BY <1>4, ConnectionEnds DEF ConnectFails, optVars
<1>5. CASE Connect
  <2>1. /\ pc = "connect" /\ pc' \in {"reset", "init"}
        /\ UNCHANGED <<send_udp, given, again, ending>>
    BY <1>5 DEF Connect, optVars, endVars
  <2>2. Len(objects) \in Nat /\ Len(objects) <= MaxOptions + 1
    BY <2>1, AllOpen DEF ObjectInv, Counted
  <2>3. \A l \in ObjectKinds : InUse(l) => InUse(l)'
    BY <2>1 DEF InUse, Offline
  <2>4. Counted'
    BY <2>1 DEF Counted
  <2>5. send_udp' => "udp" \in given'
    BY <2>1, AllOpen
  <2>6. CASE UNCHANGED <<objects, cur>>
    BY <2>1, <2>3, <2>4, <2>6, NothingOpened DEF objVars, optVars
  <2>7. ASSUME NEW k \in {"file", "port"},
               objects' = Opened(objects, k), cur' = [cur EXCEPT ![k] = New]
        PROVE  ObjectTypeOK' /\ ObjectInv'
    <3>1. k \in ObjectKinds /\ InUse(k)'
      BY <2>1 DEF ObjectKinds, InUse, Offline, Repeatable
    <3>2. \A i \in 1..Len(objects) : objects[i].kind # k
      BY <2>1, AllOpen DEF InUse, Offline
    <3> QED
      BY <2>1, <2>2, <2>3, <2>4, <2>5, <2>7, <3>1, <3>2, OneOpened
  <2> QED
    BY <1>5, <2>6, <2>7 DEF Connect
<1>6. CASE CommandEnds
  BY <1>6, ConnectionEnds DEF CommandEnds, optVars
<1>7. CASE MainEnds
  BY <1>7, EndsWell DEF MainEnds, optVars
<1>8. CASE EndOfFile
  <2> DEFINE d == ClosedIn(objects, cur, {"file"})
  <2>1. /\ pc # "exited" /\ pc' = "exited" /\ ending' = "eof"
        /\ objects' = d /\ cur' = cur
    BY <1>8 DEF EndOfFile, InPlace
  <2>2. {"file"} \in SUBSET Locals
    BY DEF Locals
  <2> HIDE DEF d
  <2>3. /\ d \in Seq([kind : ObjectKinds, closed : Nat])
        /\ Len(d) = Len(objects) /\ Len(d) \in Nat
        /\ \A i \in 1..Len(objects) : d[i].closed \in {objects[i].closed, objects[i].closed + 1}
    BY <2>1, <2>2, AllOpen, Closing DEF d
  <2>4. ASSUME NEW i \in 1..Len(d)
        PROVE  d[i] \in Objects /\ d[i].closed <= 1
    <3>1. d[i].closed \in {0, 1}
      BY <2>1, <2>3, AllOpen
    <3>2. d[i] \in [kind : ObjectKinds, closed : Nat]
      BY <2>3, ElementOfSeq
    <3> QED
      BY <3>1, <3>2 DEF Objects
  <2>5. d \in Seq(Objects)
    BY <2>3, <2>4, SeqDef, LenProperties
  <2>6. ClosedOnce'
    <3>1. ASSUME NEW i \in 1..Len(d) PROVE ~(d[i].closed > 1)
      <4>1. d[i] \in Objects /\ d[i].closed <= 1
        BY <2>4
      <4>2. d[i].closed \in Nat
        BY <4>1 DEF Objects
      <4> QED
        BY <4>1, <4>2
    <3> QED
      BY <2>1, <3>1 DEF ClosedOnce
  <2> QED
    BY <2>1, <2>5, <2>6
    DEF ObjectTypeOK, TypeOK, ObjectInv, Running, Counted, EndsClosed
<1> QED
  BY <1>2, <1>3, <1>4, <1>5, <1>6, <1>7, <1>8

\* The others open and close nothing, unless the program starts or is ended from outside.
LEMMA OthersKeepObjects ==
    ASSUME TypeOK, InPlace, ObjectInv,
           \/ CommandOK \/ CommandWaits \/ CommandTries \/ WaitForCall \/ Waits \/ NoCall
           \/ CallConnects \/ CarrierLost \/ ModemError \/ HangUp
           \/ Session \/ Modem \/ Interrupt \/ Start \/ Kill \/ EditTypes
    PROVE  ObjectTypeOK' /\ ObjectInv'
<1>1. ASSUME UNCHANGED <<objVars, optVars, ending>>, pc # "exited",
             pc' = pc \/ (pc \notin Offline /\ pc' \notin Offline),
             opened' = opened \/ opened' = "yes",
             pc' \in {"loop", "wait", "call", "hangup"} =>
                 opened' = "yes" \/ pc \in {"loop", "wait", "call", "hangup"}
      PROVE  ObjectTypeOK' /\ ObjectInv'
  <2>1. pc' # "exited" /\ UNCHANGED <<objects, cur, send_udp, given, again, ending>>
    BY <1>1 DEF objVars, optVars, Offline
  <2>2. Counted'
    BY <1>1, <2>1 DEF ObjectInv, Counted, Offline
  <2>3. \A l \in ObjectKinds : InUse(l) => InUse(l)'
    BY <1>1, <2>1 DEF InUse, Offline
  <2> QED
    BY <1>1, <2>1, <2>2, <2>3, NothingOpened
<1>2. CASE CommandOK \/ CommandWaits \/ CommandTries \/ WaitForCall \/ Waits \/ NoCall
  BY <1>1, <1>2 DEF CommandOK, CommandWaits, CommandTries, WaitForCall, Waits, NoCall,
         mainVars, endVars, Offline
<1>3. CASE CallConnects \/ CarrierLost \/ ModemError \/ HangUp \/ Session
  BY <1>1, <1>3 DEF CallConnects, CarrierLost, ModemError, HangUp, Session, SessionReads,
         SessionEnds, Identify, mainVars, endVars, Offline
<1>4. CASE Modem \/ Interrupt
  BY <1>1, <1>4 DEF Modem, Interrupt, mainVars, endVars, Offline
<1>5. CASE Start
  <2>1. /\ pc' = "options" /\ objects' = <<>> /\ cur' = NoObjects /\ send_udp' = FALSE
        /\ ending' = "none"
    BY <1>5 DEF Start
  <2>2. Len(objects') = 0 /\ objects' \in Seq(Objects) /\ 0 <= MaxOptions
    BY <2>1, LifecycleAssumption
  <2>3. cur' \in [Locals -> 0..(MaxOptions + 2)] /\ Names(objects', cur')
    BY <2>1, LifecycleAssumption DEF NoObjects, Names
  <2>4. Running'
    BY <2>1, <2>2, <2>3 DEF Running, Names
  <2> QED
    BY <2>1, <2>2, <2>3, <2>4 DEF ObjectTypeOK, ObjectInv, Counted, ClosedOnce, EndsClosed
<1>6. CASE Kill
  <2>1. pc # "exited" /\ pc' = "exited" /\ ending' = "left" /\ UNCHANGED <<objects, cur>>
    BY <1>6 DEF Kill, objVars
  <2> QED
    BY <2>1, AllOpen
    DEF ObjectTypeOK, TypeOK, ObjectInv, Running, Counted, ClosedOnce, EndsClosed
<1>7. CASE EditTypes
  <2>1. pc = "exited" /\ UNCHANGED <<pc, objects, cur, opened, ending, again>>
    BY <1>7 DEF EditTypes, mainVars, objVars, endVars, optVars
  <2> QED
    BY <2>1
    DEF ObjectTypeOK, TypeOK, ObjectInv, Running, Counted, ClosedOnce, EndsClosed
<1> QED
  BY <1>2, <1>3, <1>4, <1>5, <1>6, <1>7

LEMMA ObjectsStep ==
    ASSUME TypeOK, InPlace, ObjectInv, Next
    PROVE  ObjectTypeOK' /\ ObjectInv'
  BY OptionsKeepObjects, MainOpens, OthersKeepObjects DEF Next, Main

----------------------------------------------------------------------------
(* Types. *)

LEMMA Bounds ==
    /\ AT_TRIES \in Nat /\ AT_TRIES > 0 /\ RSP_TRIES \in Nat /\ RSP_TRIES > 0
    /\ MaxLines \in Nat /\ MaxSaid \in Nat /\ MaxTorn \in Nat
<1>1. /\ AT_TRIES \in Nat \ {0} /\ RSP_TRIES \in Nat \ {0}
      /\ MaxLines \in Nat /\ MaxSaid \in Nat /\ MaxTorn \in Nat
  BY ModemAssumption, Zenon
<1> QED
  BY <1>1

\* What the modem says is a word, or a piece of one.
LEMMA SaysTypes ==
    ASSUME ModemTypeOK, NEW w \in Words \cup {"other"}, Says(w)
    PROVE  /\ rx' \in Seq(Pieces) /\ saying' \in Words \cup {"other", None}
           /\ torn' \in 0..MaxTorn
           /\ Len(rx') = Len(rx) + 1 /\ \A i \in 1..Len(rx) : rx'[i] = rx[i]
           /\ \/ rx'[Len(rx) + 1] = Line(w) /\ saying' = saying
              \/ rx'[Len(rx) + 1] = [word |-> w, part |-> "head"] /\ saying' = w /\ ~testing
<1>1. Line(w) \in Pieces /\ [word |-> w, part |-> "head"] \in Pieces
  BY DEF Pieces, Line
<1>2. CASE rx' = Append(rx, Line(w)) /\ UNCHANGED <<saying, torn>>
  BY <1>1, <1>2, AppendProperties DEF ModemTypeOK
<1>3. CASE /\ ~testing /\ torn < MaxTorn /\ torn' = torn + 1
           /\ rx' = Append(rx, [word |-> w, part |-> "head"]) /\ saying' = w
  <2>1. torn' \in 0..MaxTorn
    BY <1>3, Bounds DEF ModemTypeOK
  <2> QED
    BY <1>1, <1>3, <2>1, AppendProperties DEF ModemTypeOK
<1> QED
  BY <1>2, <1>3 DEF Says

\* A read takes the first piece or none.
LEMMA ReadsTakes ==
    ASSUME ModemTypeOK, NEW r, Reads(r)
    PROVE  /\ rx' \in Seq(Pieces) /\ left' \in 0..RSP_TRIES
           /\ buf' \in Words \cup {"other", None} /\ missed' \in BOOLEAN
           /\ UNCHANGED <<broken, testing, cmds, config, line, saying, late, said, torn>>
           /\ \/ /\ rx # <<>> /\ Head(rx) = rx[1] /\ rx[1] \in Pieces
                 /\ rx' = Tail(rx) /\ Len(rx') = Len(rx) - 1 /\ Len(rx) \in Nat \ {0}
                 /\ \A i \in 1..Len(rx') : rx'[i] = rx[i + 1]
              \/ rx' = rx
<1>1. left > 0 /\ UNCHANGED <<broken, testing, cmds, config, line, saying, late, said, torn>>
  BY DEF Reads, portVars, modemVars
<1>2. /\ left \in 1..RSP_TRIES /\ RSP_TRIES \in Nat \ {0} /\ rx \in Seq(Pieces)
      /\ missed \in BOOLEAN
  BY <1>1, Bounds DEF ModemTypeOK
<1>3. \A w : Try(w, r) => left' \in 0..RSP_TRIES /\ buf' = None
  BY <1>2 DEF Try
<1>4. CASE rx # <<>> /\ rx' = Tail(rx)
  <2>1. /\ rx' \in Seq(Pieces) /\ Len(rx') = Len(rx) - 1 /\ Len(rx) \in Nat \ {0}
        /\ \A i \in 1..Len(rx') : rx'[i] = rx[i + 1]
    BY <1>2, <1>4, HeadTailProperties, EmptySeq
  <2>2. Head(rx) = rx[1] /\ rx[1] \in Pieces
    BY <1>2, <1>4, <2>1, ElementOfSeq
  <2>3. rx[1].word \in Words \cup {"other"}
    BY <2>2 DEF Pieces
  <2>4. CASE ReadsLine(r)
    <3>1. left' \in 0..RSP_TRIES /\ buf' = None
      BY <1>3, <2>4 DEF ReadsLine
    <3>2. missed' \in BOOLEAN
      BY <1>2, <2>4 DEF ReadsLine
    <3> QED
      BY <1>1, <1>4, <2>1, <2>2, <3>1, <3>2
  <2>5. CASE ReadsPiece(r)
    <3>1. left' = left /\ missed' = missed /\ buf' = rx[1].word
      BY <2>2, <2>5 DEF ReadsPiece
    <3>2. left' \in 0..RSP_TRIES /\ buf' \in Words \cup {"other", None}
      BY <1>2, <2>3, <3>1
    <3> QED
      BY <1>1, <1>2, <1>4, <2>1, <2>2, <3>1, <3>2
  <2>6. CASE ReadsNothing(r) \/ ReadFails(r)
    <3>1. left' \in 0..RSP_TRIES /\ buf' = None
      BY <1>2, <1>3, <2>6 DEF ReadsNothing, ReadFails
    <3>2. missed' \in BOOLEAN
      BY <1>2, <2>6 DEF ReadsNothing, ReadFails
    <3> QED
      BY <1>1, <1>4, <2>1, <2>2, <3>1, <3>2
  <2> QED
    BY <2>4, <2>5, <2>6 DEF Reads
<1>5. CASE rx' = rx /\ (ReadsNothing(r) \/ ReadFails(r))
  <2>1. left' \in 0..RSP_TRIES /\ buf' = None
    BY <1>2, <1>3, <1>5 DEF ReadsNothing, ReadFails
  <2>2. missed' \in BOOLEAN
    BY <1>2, <1>5 DEF ReadsNothing, ReadFails
  <2> QED
    BY <1>1, <1>2, <1>5, <2>1, <2>2
<1> QED
  BY <1>4, <1>5 DEF Reads, ReadsLine, ReadsPiece, ReadsNothing, ReadFails

\* The port's and the modem's own part of a closed port.
LEMMA ClosedTypes ==
    ASSUME ModemTypeOK, PortClosed
    PROVE  ModemTypeOK'
<1>1. <<>> \in Seq(Pieces) /\ <<>> \in Seq([text : Commands, old : BOOLEAN])
  BY EmptySeq
<1> QED
  BY <1>1, Bounds DEF ModemTypeOK, PortClosed, portVars

LEMMA ModemNextTypes ==
    ASSUME ModemTypeOK, ModemNext
    PROVE  ModemTypeOK'
<1> USE DEF ModemTypeOK
<1>1. ASSUME NEW w \in Words \cup {"other"}, Unasked(w)
      PROVE  /\ rx' \in Seq(Pieces) /\ saying' \in Words \cup {"other", None}
             /\ torn' \in 0..MaxTorn /\ said' \in 0..MaxSaid
             /\ UNCHANGED <<left, buf, command, tries, broken, testing, cmds, config, late>>
  <2>1. said' \in 0..MaxSaid
    BY <1>1, Bounds DEF Unasked
  <2> QED
    BY <1>1, <2>1, SaysTypes DEF Unasked, readVars, cmdVars, portVars
<1>2. CASE Finishes
  <2>1. [word |-> saying, part |-> "tail"] \in Pieces
    BY <1>2 DEF Finishes, Pieces
  <2>2. rx' \in Seq(Pieces)
    BY <1>2, <2>1, AppendProperties DEF Finishes
  <2> QED
    BY <1>2, <2>2 DEF Finishes, readVars, cmdVars, portVars
<1>3. CASE Answers
  <2>1. Head(cmds) \in [text : Commands, old : BOOLEAN]
        /\ cmds' \in Seq([text : Commands, old : BOOLEAN])
    BY <1>3, HeadTailProperties DEF Answers
  <2>2. Head(cmds).text \in Commands /\ Head(cmds).old \in BOOLEAN
    BY <2>1
  <2>3. /\ rx' \in Seq(Pieces) /\ saying' \in Words \cup {"other", None} /\ torn' \in 0..MaxTorn
        /\ config' \in Commands \cup {None, "kept"}
        /\ UNCHANGED <<left, buf, command, tries, broken, testing, line, missed, said>>
    BY <1>3, <2>2, SaysTypes DEF Answers, Words, readVars, cmdVars, portVars
  <2>4. late' \in BOOLEAN
    BY <1>3, <2>2 DEF Answers
  <2> QED
    BY <2>1, <2>3, <2>4
<1>4. CASE Babbles \/ FileSays \/ Rings
  <2>1. PICK w \in Words \cup {"other"} : Unasked(w) /\ UNCHANGED <<line, missed>>
    BY <1>4 DEF Babbles, FileSays, Rings, Words
  <2> QED
    BY <1>1, <2>1
<1>5. CASE CallComes
  BY <1>1, <1>5 DEF CallComes, Words
<1>6. CASE CallGoes
  BY <1>1, <1>6 DEF CallGoes, Words
<1>7. CASE PortFails
  BY <1>7 DEF PortFails, readVars, cmdVars, modemVars
<1> QED
  BY <1>2, <1>3, <1>4, <1>5, <1>6, <1>7 DEF ModemNext

\* A try of a command.
LEMMA TryTypes ==
    ASSUME ModemTypeOK, TryCommand
    PROVE  ModemTypeOK'
<1>1. /\ tries' \in 0..AT_TRIES /\ missed' \in BOOLEAN
      /\ UNCHANGED <<command, broken, testing, config, line, saying, late, said, torn>>
      /\ RSP_TRIES \in Nat /\ command \in Commands
  BY Bounds DEF TryCommand, CanTry, ModemTypeOK, portVars
<1>2. Flushed(rx) \in Seq(Pieces)
  BY EmptySeq DEF Flushed, ModemTypeOK
<1>3. Old(cmds) \in Seq([text : Commands, old : BOOLEAN])
  <2>1. ASSUME NEW i \in 1..Len(cmds)
        PROVE  [cmds[i] EXCEPT !.old = TRUE] \in [text : Commands, old : BOOLEAN]
    <3>1. cmds[i] \in [text : Commands, old : BOOLEAN]
      BY ElementOfSeq DEF ModemTypeOK
    <3> QED
      BY <3>1
  <2> QED
    BY <2>1, SeqDef, LenProperties DEF Old, ModemTypeOK
<1>4. Append(Old(cmds), [text |-> command, old |-> FALSE])
          \in Seq([text : Commands, old : BOOLEAN])
  BY <1>1, <1>3, AppendProperties
<1>5. rx' \in Seq(Pieces) /\ left' \in 0..RSP_TRIES /\ buf' \in Words \cup {"other", None}
      /\ cmds' \in Seq([text : Commands, old : BOOLEAN])
  <2>1. rx' = Flushed(rx) /\ (cmds' = Old(cmds)
            \/ cmds' = Append(Old(cmds), [text |-> command, old |-> FALSE]))
    BY DEF TryCommand, BeginWait, Drained
  <2>2. (left' = RSP_TRIES /\ buf' = None) \/ (left' = left /\ buf' = buf)
    BY DEF TryCommand, BeginWait, readVars
  <2>3. left' \in 0..RSP_TRIES /\ buf' \in Words \cup {"other", None}
    BY <1>1, <2>2 DEF ModemTypeOK
  <2> QED
    BY <1>2, <1>3, <1>4, <2>1, <2>3
<1> QED
  BY <1>1, <1>5 DEF ModemTypeOK

LEMMA ModemTypesStep ==
    ASSUME ModemTypeOK, Next
    PROVE  ModemTypeOK'
<1>1. CASE UNCHANGED allModemVars
  BY <1>1 DEF ModemTypeOK, allModemVars, readVars, cmdVars, portVars, modemVars
<1>2. CASE PortClosed
  BY <1>2, ClosedTypes
<1>3. CASE Modem
  BY <1>3, ModemNextTypes DEF Modem
<1>4. CASE Start
  <2>1. /\ broken' = FALSE /\ testing' = TRUE /\ late' = FALSE /\ missed' = FALSE
        /\ said' = 0 /\ torn' = 0 /\ config' \in {config, "kept"}
        /\ UNCHANGED <<left, buf, command, tries, rx, cmds, line, saying>>
    BY <1>4 DEF Start, readVars, cmdVars
  <2>2. config' \in Commands \cup {None, "kept"}
    BY <2>1 DEF ModemTypeOK
  <2>3. said' \in 0..MaxSaid /\ torn' \in 0..MaxTorn
    BY <2>1, Bounds
  <2> QED
    BY <2>1, <2>2, <2>3 DEF ModemTypeOK
<1>5. CASE OptionModem
  BY <1>5 DEF OptionModem, ModemTypeOK, readVars, cmdVars, modemVars
<1>6. CASE Connect
  <2>1. /\ command' \in Commands /\ tries' = 0 /\ broken' \in BOOLEAN
        /\ UNCHANGED <<left, buf, rx, testing, cmds, config, line, saying, late, said, torn,
                       missed>>
    BY <1>6 DEF Connect, ModemTypeOK, readVars, modemVars, Commands
  <2> QED
    BY <2>1, Bounds DEF ModemTypeOK
<1>7. CASE CommandOK
  <2>1. command' \in Commands \cup {None} /\ tries' = 0
    BY <1>7 DEF CommandOK, Commands
  <2> QED
    BY <1>7, <2>1, ReadsTakes, Bounds DEF CommandOK, ModemTypeOK
<1>8. CASE CommandTries
  BY <1>8, TryTypes DEF CommandTries
<1>9. CASE \E r : Reads(r) /\ UNCHANGED cmdVars
  BY <1>9, ReadsTakes DEF ModemTypeOK, cmdVars
<1>10. CASE WaitForCall
  BY <1>10, Bounds
  DEF WaitForCall, BeginWait, Drained, ModemTypeOK, cmdVars, portVars, modemVars
<1>11. CASE HangUp
  <2>1. /\ rx' \in Seq(Pieces) /\ saying' \in Words \cup {"other", None}
        /\ torn' \in 0..MaxTorn /\ line' = "idle"
    BY <1>11, SaysTypes DEF HangUp, HangsUp, Words, ModemTypeOK
  <2> QED
    BY <1>11, <2>1 DEF HangUp, ModemTypeOK, readVars, cmdVars, portVars
<1>12. CASE SessionReads
  <2>1. rx' \in Seq(Pieces)
    BY <1>12, HeadTailProperties DEF SessionReads, ModemTypeOK
  <2> QED
    BY <1>12, <2>1 DEF SessionReads, ModemTypeOK, readVars, cmdVars, portVars, modemVars
<1>13. CASE CommandWaits \/ Waits \/ NoCall \/ CallConnects \/ CarrierLost \/ ModemError
  BY <1>9, <1>13
  DEF CommandWaits, Waits, NoCall, CallConnects, CarrierLost, ModemError
<1>14. CASE OptionLog \/ OptionPcap \/ OptionUdp \/ OptionsEnd \/ OptionsLeave \/ OptionsDone
  BY <1>1, <1>14 DEF OptionLog, OptionPcap, OptionUdp, OptionsEnd, OptionsLeave, OptionsDone,
         StaysOnLine
<1>15. CASE OpenDatabase \/ DatabaseFails \/ ConnectFails
  BY <1>1, <1>15 DEF OpenDatabase, DatabaseFails, ConnectFails, StaysOnLine
<1>16. CASE CommandEnds \/ MainEnds \/ EndOfFile \/ Kill
  BY <1>2, <1>16 DEF CommandEnds, MainEnds, EndOfFile, Kill
<1>17. CASE SessionEnds \/ (\E e \in Editions : Identify(e)) \/ Interrupt \/ EditTypes
  BY <1>1, <1>17 DEF SessionEnds, Identify, Interrupt, EditTypes
<1> QED
  BY <1>3, <1>4, <1>5, <1>6, <1>7, <1>8, <1>10, <1>11, <1>12, <1>13, <1>14, <1>15, <1>16,
     <1>17 DEF Next, Options, Main, Session

LEMMA TypesStep ==
    ASSUME TypeOK, Next, ModemTypeOK', ObjectTypeOK'
    PROVE  TypeOK'
<1> USE DEF ObjectTypeOK
<1>1. /\ MaxStarts \in Nat /\ MaxEdits \in Nat /\ MaxOptions \in Nat
      /\ csv \in [Editions -> Types \cup {Unknown}] \cup {NoFile}
  BY LifecycleAssumption DEF TypeOK, Files
<1>2. ASSUME UNCHANGED <<typeVars, starts>>, UNCHANGED optVars, pc' = "exited",
             UNCHANGED <<running, connected>>, send_udp' \in BOOLEAN,
             opened' \in {"not", "failed", "yes"},
             ending' \in {"shutdown", "left", "eof"}
      PROVE  TypeOK'
  BY <1>2 DEF TypeOK, typeVars, optVars
<1>3. CASE OptionsEnd \/ OptionsLeave \/ DatabaseFails \/ ConnectFails \/ CommandEnds
           \/ MainEnds \/ EndOfFile \/ Kill
  BY <1>2, <1>3
  DEF OptionsEnd, OptionsLeave, DatabaseFails, ConnectFails, CommandEnds, MainEnds, EndOfFile,
      Kill, ConnectionFails, Shutdown, TypeOK, objVars
<1>4. CASE OptionLog \/ OptionPcap \/ OptionUdp
  <2>1. /\ given' \subseteq Repeatable /\ again' \subseteq given'
        /\ UNCHANGED <<running, connected, typeVars, starts, opened>>
        /\ pc' \in {pc, "exited"} /\ send_udp' \in BOOLEAN /\ ending' \in {ending, "shutdown"}
    BY <1>4
    DEF OptionLog, OptionPcap, OptionUdp, Option, Shutdown, Repeatable, TypeOK, mainVars,
        endVars
  <2> QED
    BY <2>1 DEF TypeOK, typeVars
<1>5. CASE OpenDatabase
  <2>1. csv \in [Editions -> Types \cup {Unknown}] /\ termtyp \in [Editions -> Types \cup {Unknown}]
    BY <1>1, <1>5 DEF OpenDatabase, TypeOK
  <2>2. termtyp' \in [Editions -> Types \cup {Unknown}]
    BY <1>5, <2>1 DEF OpenDatabase, AddTypes
  <2> QED
    BY <1>5, <2>2 DEF OpenDatabase, TypeOK, optVars, endVars
<1>6. CASE \E e \in Editions : Identify(e)
  <2>1. PICK e \in Editions : Identify(e)
    BY <1>6
  <2>2. termtyp[e] \in Types \cup {Unknown}
    BY DEF TypeOK
  <2>3. terminal_type' \in Types \cup {Unknown, Failed}
    BY <2>1, <2>2 DEF Identify
  <2>4. UNCHANGED <<pc, running, connected, send_udp, termtyp, csv, edits, starts, given, again,
                    opened, ending>>
    BY <2>1 DEF Identify, mainVars, objVars, optVars, endVars
  <2> QED
    BY <2>3, <2>4 DEF TypeOK
<1>7. CASE Start
  <2>1. /\ pc' = "options" /\ running' = TRUE /\ connected' = FALSE /\ send_udp' = FALSE
        /\ terminal_type' = Unknown /\ given' = {} /\ again' = {} /\ opened' = "not"
        /\ ending' = "none" /\ UNCHANGED <<termtyp, csv, edits>>
    BY <1>7 DEF Start
  <2>2. starts' \in 0..MaxStarts
    BY <1>1, <1>7 DEF Start, TypeOK
  <2> QED
    BY <2>1, <2>2 DEF TypeOK
<1>8. CASE EditTypes
  BY <1>1, <1>8 DEF EditTypes, TypeOK, mainVars, objVars, optVars, endVars
<1>9. CASE OptionModem \/ OptionsDone \/ Connect \/ CommandOK \/ CommandWaits \/ CommandTries
  BY <1>9
  DEF OptionModem, OptionsDone, Connect, CommandOK, CommandWaits, CommandTries, TypeOK,
      mainVars, objVars, typeVars, optVars, endVars
<1>10. CASE WaitForCall \/ Waits \/ NoCall \/ CallConnects \/ CarrierLost \/ ModemError \/ HangUp
  BY <1>10
  DEF WaitForCall, Waits, NoCall, CallConnects, CarrierLost, ModemError, HangUp, TypeOK,
      mainVars, objVars, typeVars, optVars, endVars
<1>11. CASE SessionReads \/ SessionEnds \/ Interrupt
  BY <1>11
  DEF SessionReads, SessionEnds, Interrupt, TypeOK, mainVars, objVars, typeVars, optVars, endVars
<1>12. CASE Modem
  <2>1. UNCHANGED <<mainVars, objVars, typeVars, starts, optVars, endVars>>
    BY <1>12 DEF Modem
  <2> QED
    BY <2>1 DEF TypeOK, mainVars, objVars, typeVars, optVars, endVars
<1> QED
  BY <1>3, <1>4, <1>5, <1>6, <1>7, <1>8, <1>9, <1>10, <1>11, <1>12
  DEF Next, Options, Main, Session

----------------------------------------------------------------------------
(* What is heard of the modem. *)

LEMMA NoneIsNoWord ==
    /\ None \notin Words \cup {"other"} /\ None # "NULL" /\ None # "READ_ERROR"
    /\ None \notin Commands
  BY ModemAssumption, Zenon DEF Words, Commands

\* What a word leaves of the pieces that are there, and what can be read then.
LEMMA SaysPaired ==
    ASSUME ModemTypeOK, Paired, NEW w \in Words \cup {"other"}, Says(w), buf' = buf
    PROVE  /\ Paired' /\ rx' # <<>>
           /\ \A x : \A i \in 1..Len(rx) : i \in 1..Len(rx') /\ (Readable(x, i)' <=> Readable(x, i))
           /\ \A x : \A i \in 1..Len(rx') : Readable(x, i)' => x = w \/ i \in 1..Len(rx)
           /\ \E n \in 1..Len(rx') : n \notin 1..Len(rx) /\ Readable(w, n)'
<1>1. saying = None /\ rx \in Seq(Pieces) /\ Len(rx) \in Nat
  BY LenProperties DEF Says, ModemTypeOK
<1>2. /\ Len(rx') = Len(rx) + 1 /\ \A i \in 1..Len(rx) : rx'[i] = rx[i]
      /\ rx' \in Seq(Pieces)
      /\ \/ rx'[Len(rx) + 1].word = w /\ rx'[Len(rx) + 1].part = "line"
         \/ rx'[Len(rx) + 1].word = w /\ rx'[Len(rx) + 1].part = "head" /\ saying' = w
  <2>1. /\ Line(w).word = w /\ Line(w).part = "line"
        /\ [word |-> w, part |-> "head"].word = w /\ [word |-> w, part |-> "head"].part = "head"
    BY DEF Line
  <2> QED
    BY <2>1, SaysTypes
<1>3. rx' # <<>> /\ Len(rx) + 1 \in 1..Len(rx') /\ 1..Len(rx) \subseteq 1..Len(rx')
  BY <1>1, <1>2, EmptySeq
<1>4. ASSUME NEW i \in 1..Len(rx'), rx'[i].part = "head"
      PROVE  Follows(i)'
  <2>1. CASE i \in 1..Len(rx)
    <3>1. rx[i].part = "head" /\ rx[i].word \in Words \cup {"other"}
      <4>1. rx'[i] = rx[i] /\ rx[i] \in Pieces
        BY <1>1, <1>2, <2>1, ElementOfSeq
      <4>2. rx[i].word \in Words \cup {"other"}
        BY <4>1 DEF Pieces
      <4> QED
        BY <1>4, <4>1, <4>2
    <3>2. i < Len(rx) /\ rx[i + 1].word = rx[i].word /\ rx[i + 1].part = "tail"
      BY <1>1, <2>1, <3>1, NoneIsNoWord DEF Paired, Follows
    <3>3. i < Len(rx') /\ rx'[i + 1] = rx[i + 1] /\ rx'[i] = rx[i]
      BY <1>1, <1>2, <2>1, <3>2
    <3> QED
      BY <3>2, <3>3 DEF Follows
  <2>2. CASE i = Len(rx) + 1
    BY <1>1, <1>2, <1>4, <2>2 DEF Follows
  <2> QED
    BY <1>1, <1>2, <2>1, <2>2
<1>5. ASSUME buf' # None
      PROVE  rx'[1].word = buf' /\ rx'[1].part = "tail"
  <2>1. rx # <<>> /\ rx[1].word = buf /\ rx[1].part = "tail"
    BY <1>1, <1>5 DEF Paired
  <2>2. 1 \in 1..Len(rx)
    BY <1>1, <2>1, EmptySeq
  <2> QED
    BY <1>2, <2>1, <2>2
<1>6. Paired'
  BY <1>3, <1>4, <1>5 DEF Paired
<1>7. Len(rx') \in Nat /\ \A i \in 1..Len(rx') : i \in 1..Len(rx) \/ i = Len(rx) + 1
  BY <1>1, <1>2
<1>8. \A x : \A i \in 1..Len(rx) : i \in 1..Len(rx') /\ (Readable(x, i)' <=> Readable(x, i))
  BY <1>2, <1>3 DEF Readable
<1>9. \A n : n = Len(rx) + 1 => Readable(w, n)' /\ \A x : Readable(x, n)' => x = w
  BY <1>2 DEF Readable
<1>10. Len(rx) + 1 \notin 1..Len(rx)
  BY <1>1
<1> QED
  BY <1>3, <1>6, <1>7, <1>8, <1>9, <1>10

\* Taking the first piece.
LEMMA TakenPaired ==
    ASSUME ModemTypeOK, Paired, rx # <<>>, rx' = Tail(rx), saying' = saying,
           buf' = None \/ (rx[1].part = "head" /\ buf' = rx[1].word)
    PROVE  /\ Paired' /\ Len(rx') = Len(rx) - 1 /\ Len(rx) \in Nat \ {0}
           /\ \A i \in 1..Len(rx') : i + 1 \in 1..Len(rx) /\ rx'[i] = rx[i + 1]
           /\ \A i \in 1..Len(rx) : i # 1 => i - 1 \in 1..Len(rx') /\ rx'[i - 1] = rx[i]
<1>1. /\ rx \in Seq(Pieces) /\ Len(rx') = Len(rx) - 1 /\ Len(rx) \in Nat \ {0}
      /\ rx' \in Seq(Pieces) /\ \A i \in 1..Len(rx') : rx'[i] = rx[i + 1]
  BY HeadTailProperties, EmptySeq DEF ModemTypeOK
<1>2. \A i \in 1..Len(rx') : i + 1 \in 1..Len(rx) /\ rx'[i] = rx[i + 1]
  BY <1>1
<1>3. ASSUME NEW i \in 1..Len(rx), i # 1
      PROVE  i - 1 \in 1..Len(rx') /\ rx'[i - 1] = rx[i]
  <2>1. i - 1 \in 1..Len(rx') /\ (i - 1) + 1 = i
    BY <1>1, <1>3
  <2> QED
    BY <1>2, <2>1
<1>4. ASSUME NEW i \in 1..Len(rx'), rx'[i].part = "head"
      PROVE  Follows(i)'
  <2>1. i + 1 \in 1..Len(rx) /\ rx'[i] = rx[i + 1] /\ Follows(i + 1)
    BY <1>2, <1>4 DEF Paired
  <2>2. CASE i < Len(rx')
    <3>1. i + 1 \in 1..Len(rx') /\ i + 1 < Len(rx) /\ rx'[i + 1] = rx[(i + 1) + 1]
      BY <1>1, <1>2, <2>2
    <3> QED
      BY <2>1, <2>2, <3>1 DEF Follows
  <2>3. CASE ~(i < Len(rx'))
    <3>1. ~(i + 1 < Len(rx))
      BY <1>1, <2>3
    <3> QED
      BY <2>1, <2>3, <3>1 DEF Follows
  <2> QED
    BY <2>2, <2>3
<1>5. ASSUME buf' # None
      PROVE  IF rx' = <<>> THEN saying' = buf' ELSE rx'[1].word = buf' /\ rx'[1].part = "tail"
  <2>1. rx[1].part = "head" /\ buf' = rx[1].word /\ 1 \in 1..Len(rx)
    BY <1>1, <1>5
  <2>2. Follows(1)
    BY <2>1 DEF Paired
  <2>3. CASE rx' = <<>>
    <3>1. ~(1 < Len(rx))
      <4>1. Len(rx') = 0
        BY ONLY <2>3
      <4> QED
        BY <1>1, <4>1
    <3> QED
      BY <2>1, <2>2, <2>3, <3>1 DEF Follows
  <2>4. CASE rx' # <<>>
    <3>1. 1 < Len(rx) /\ 1 \in 1..Len(rx')
      BY <1>1, <2>4, EmptySeq
    <3>2. rx'[1] = rx[1 + 1]
      BY <1>2, <3>1
    <3> QED
      BY <2>1, <2>2, <2>4, <3>1, <3>2 DEF Follows
  <2> QED
    BY <2>3, <2>4
<1>6. Paired'
  BY <1>4, <1>5 DEF Paired
<1> QED
  BY <1>1, <1>2, <1>3, <1>6

\* What a read returns, and which pieces are there still.
LEMMA ReadsWell ==
    ASSUME ModemTypeOK, Paired, NEW r, Reads(r)
    PROVE  /\ Paired'
           /\ IF r = None THEN left' > 0 ELSE left' = 0 /\ buf' = None
           /\ left' = 0 => buf' = None
           /\ r = "READ_ERROR" => rx' = rx /\ missed' = missed
           /\ missed => missed'
           /\ UNCHANGED <<broken, testing, cmds, config, line, saying, late, said, torn>>
<1>1. /\ left > 0 /\ left \in Nat
      /\ UNCHANGED <<broken, testing, cmds, config, line, saying, late, said, torn>>
  BY Bounds DEF Reads, portVars, modemVars, ModemTypeOK
<1>2. ASSUME NEW w, Try(w, r)
      PROVE  /\ buf' = None
             /\ \/ r = None /\ w = "other" /\ left > 1 /\ left' = left - 1
                \/ r = w /\ w # "other" /\ left' = 0
                \/ r = "NULL" /\ left' = 0
  <2>1. CASE w = "other" /\ left > 1
    BY <1>2, <2>1 DEF Try
  <2>2. CASE ~(w = "other" /\ left > 1)
    BY <1>2, <2>2 DEF Try
  <2> QED
    BY <2>1, <2>2
<1>3. CASE ReadsLine(r)
  <2>1. rx # <<>> /\ rx' = Tail(rx) /\ Try(Whole(Head(rx)), r) /\ (missed => missed')
    BY <1>3 DEF ReadsLine
  <2>2. Head(rx) \in Pieces
    BY <2>1, HeadTailProperties DEF ModemTypeOK
  <2>3. Whole(Head(rx)) \in Words \cup {"other"}
    BY <2>2 DEF Whole, Pieces
  <2>4. r # "READ_ERROR" /\ IF r = None THEN left' > 0 ELSE left' = 0
    <3>1. CASE r = None /\ left > 1 /\ left' = left - 1
      BY <1>1, <3>1, NoneIsNoWord
    <3>2. CASE r = Whole(Head(rx)) /\ r # "other" /\ left' = 0
      BY <2>3, <3>2, NoneIsNoWord DEF Words
    <3>3. CASE r = "NULL" /\ left' = 0
      BY <3>3, NoneIsNoWord
    <3> QED
      BY <1>2, <2>1, <3>1, <3>2, <3>3
  <2> QED
    BY <1>1, <1>2, <2>1, <2>4, TakenPaired
<1>4. CASE ReadsPiece(r)
  <2>1. /\ rx # <<>> /\ rx' = Tail(rx) /\ r = None /\ left' = left /\ missed' = missed
        /\ Head(rx).part = "head" /\ buf' = Head(rx).word
    BY <1>4 DEF ReadsPiece
  <2>2. Head(rx) = rx[1]
    BY <2>1 DEF ModemTypeOK
  <2> QED
    BY <1>1, <2>1, <2>2, TakenPaired, NoneIsNoWord
<1>5. CASE ReadsNothing(r)
  <2>1. rx = <<>> /\ rx' = rx /\ Try("other", r) /\ (missed => missed') /\ buf' = None
    BY <1>2, <1>5 DEF ReadsNothing
  <2>2. r # "READ_ERROR" /\ IF r = None THEN left' > 0 ELSE left' = 0
    BY <1>1, <1>2, <2>1, NoneIsNoWord
  <2>3. Paired'
    BY <1>1, <2>1 DEF Paired
  <2> QED
    BY <1>1, <2>1, <2>2, <2>3
<1>6. CASE ReadFails(r)
  <2>1. r = "READ_ERROR" /\ left' = 0 /\ buf' = None /\ rx' = rx /\ missed' = missed
    BY <1>6 DEF ReadFails
  <2>2. Paired'
    BY <1>1, <2>1 DEF Paired, Follows
  <2> QED
    BY <1>1, <2>1, <2>2, NoneIsNoWord
<1> QED
  BY <1>3, <1>4, <1>5, <1>6 DEF Reads

LEMMA ReadsLeft ==
    ASSUME ModemTypeOK, Paired, NEW r, Reads(r)
    PROVE  left > 0 /\ left # 0 /\ (~(left' > 0) \/ r = None)
<1>1. left > 0
  BY DEF Reads
<1>2. left \in Nat /\ left' \in Nat
  BY Bounds, ReadsTakes DEF ModemTypeOK
<1>3. r # None => left' = 0
  BY ReadsWell
<1> QED
  BY ONLY <1>1, <1>2, <1>3

\* Of a word that is read, what is left to read was there before.
LEMMA ReadsHeard ==
    ASSUME ModemTypeOK, Paired, NEW r, Reads(r), NEW w \in Words
    PROVE  /\ Heard(w)' => Heard(w)
           /\ \/ rx' = rx /\ buf' = None
              \/ /\ \A i \in 1..Len(rx') :
                        i + 1 \in 1..Len(rx) /\ (Readable(w, i)' <=> Readable(w, i + 1))
                 /\ \A i \in 1..Len(rx) :
                        Readable(w, i) /\ i # 1 =>
                            i - 1 \in 1..Len(rx') /\ \A k : k = i - 1 => Readable(w, k)'
                 /\ 1 \in 1..Len(rx) /\ Len(rx) \in Nat
                 /\ \/ buf' = None
                    \/ buf' = rx[1].word /\ rx[1].part = "head" /\ r = None
<1>1. w # None
  BY NoneIsNoWord
<1>2. CASE rx # <<>> /\ rx' = Tail(rx)
           /\ (buf' = None \/ (rx[1].part = "head" /\ buf' = rx[1].word /\ r = None))
  <2>1. saying' = saying
    BY ReadsTakes
  <2>2. /\ Len(rx') = Len(rx) - 1 /\ Len(rx) \in Nat \ {0}
        /\ \A i \in 1..Len(rx') : i + 1 \in 1..Len(rx) /\ rx'[i] = rx[i + 1]
        /\ \A i \in 1..Len(rx) : i # 1 => i - 1 \in 1..Len(rx') /\ rx'[i - 1] = rx[i]
    BY <1>2, <2>1, TakenPaired
  <2>3. 1 \in 1..Len(rx)
    BY <2>2
  <2>4. \A i \in 1..Len(rx') :
            i + 1 \in 1..Len(rx) /\ (Readable(w, i)' <=> Readable(w, i + 1))
    BY <2>2 DEF Readable
  <2>5. \A i \in 1..Len(rx) :
            Readable(w, i) /\ i # 1 =>
                i - 1 \in 1..Len(rx') /\ \A k : k = i - 1 => Readable(w, k)'
    BY <2>2 DEF Readable
  <2>6. buf' = w => Readable(w, 1)
    BY <1>1, <1>2 DEF Readable
  <2>7. Heard(w)' => Heard(w)
    BY <2>3, <2>4, <2>6 DEF Heard
  <2> QED
    BY <1>2, <2>2, <2>3, <2>4, <2>5, <2>7
<1>3. CASE rx' = rx /\ buf' = None
  BY <1>1, <1>3 DEF Heard, Readable
<1>4. ASSUME NEW x, Try(x, r) PROVE buf' = None
  BY <1>4 DEF Try
<1>5. CASE ReadsLine(r)
  BY <1>2, <1>4, <1>5 DEF ReadsLine
<1>6. CASE ReadsPiece(r)
  <2>1. Head(rx) = rx[1]
    BY <1>6 DEF ReadsPiece, ModemTypeOK
  <2> QED
    BY <1>2, <1>6, <2>1 DEF ReadsPiece
<1>7. CASE ReadsNothing(r) \/ ReadFails(r)
  BY <1>3, <1>4, <1>7 DEF ReadsNothing, ReadFails
<1> QED
  BY <1>5, <1>6, <1>7 DEF Reads

\* The only OK that can be read: when it is read, none is left.
LEMMA ReadsCurrent ==
    ASSUME ModemTypeOK, Paired, NEW r, Reads(r),
           \A i, j \in 1..Len(rx) :
               Readable("OK", i) => buf # "OK" /\ (Readable("OK", j) => i = j)
    PROVE  /\ \A i, j \in 1..Len(rx') :
                  Readable("OK", i)' => buf' # "OK" /\ (Readable("OK", j)' => i = j)
           /\ r = "OK" => Heard("OK") /\ ~Heard("OK")'
<1>1. "OK" \in Words /\ "OK" # None
  BY NoneIsNoWord DEF Words
<1>2. ASSUME NEW i \in 1..Len(rx'), NEW j \in 1..Len(rx'), Readable("OK", i)'
      PROVE  buf' # "OK" /\ (Readable("OK", j)' => i = j)
  <2>1. CASE rx' = rx /\ buf' = None
    BY <1>1, <1>2, <2>1 DEF Readable
  <2>2. CASE /\ \A n \in 1..Len(rx') :
                    n + 1 \in 1..Len(rx) /\ (Readable("OK", n)' <=> Readable("OK", n + 1))
             /\ 1 \in 1..Len(rx)
             /\ buf' = None \/ (buf' = rx[1].word /\ rx[1].part = "head" /\ r = None)
    <3>1. i + 1 \in 1..Len(rx) /\ Readable("OK", i + 1) /\ j + 1 \in 1..Len(rx)
      BY <1>2, <2>2
    <3>2. Readable("OK", j)' => i = j
      BY <2>2, <3>1
    <3>3. i + 1 # 1
      OBVIOUS
    <3>4. ~Readable("OK", 1)
      BY <2>2, <3>1, <3>3
    <3> QED
      BY <1>1, <2>2, <3>2, <3>4 DEF Readable
  <2> QED
    BY <1>1, <2>1, <2>2, ReadsHeard
<1>3. ASSUME r = "OK"
      PROVE  Heard("OK") /\ ~Heard("OK")'
  <2>1. buf' = None /\ rx # <<>> /\ rx' = Tail(rx) /\ Whole(Head(rx)) = "OK"
        /\ Head(rx).part # "head"
    <3>1. ReadsLine(r)
      <4>1. ~ReadsPiece(r) /\ ~ReadFails(r)
        BY <1>1, <1>3 DEF ReadsPiece, ReadFails
      <4>2. ~ReadsNothing(r)
        BY <1>1, <1>3 DEF ReadsNothing, Try
      <4> QED
        BY <4>1, <4>2 DEF Reads
    <3> QED
      BY <1>1, <1>3, <3>1 DEF ReadsLine, Try
  <2>2. saying' = saying
    BY ReadsTakes
  <2>3. /\ Len(rx) \in Nat \ {0}
        /\ \A i \in 1..Len(rx') : i + 1 \in 1..Len(rx) /\ rx'[i] = rx[i + 1]
    BY <2>1, <2>2, TakenPaired
  <2>4. Head(rx) = rx[1] /\ 1 \in 1..Len(rx) /\ rx[1] \in Pieces
    BY <2>1, <2>3, ElementOfSeq DEF ModemTypeOK
  <2>5. Readable("OK", 1) \/ buf = "OK"
    <3>1. rx[1].part \in {"line", "tail"}
      BY <2>1, <2>4 DEF Pieces
    <3> QED
      BY <2>1, <2>4, <3>1 DEF Whole, Readable
  <2>6. ASSUME NEW i \in 1..Len(rx'), Readable("OK", i)'
        PROVE  FALSE
    <3>1. i + 1 \in 1..Len(rx) /\ Readable("OK", i + 1) /\ i + 1 # 1
      BY <2>3, <2>6 DEF Readable
    <3> QED
      BY <2>4, <2>5, <3>1
  <2> QED
    BY <1>1, <2>1, <2>4, <2>5, <2>6 DEF Heard
<1> QED
  BY <1>2, <1>3

\* A CONNECT stays where it can be heard, or is returned, or is known to be missed.
LEMMA ReadsNoticed ==
    ASSUME ModemTypeOK, Paired, NEW r, Reads(r), Heard("CONNECT"), r # "READ_ERROR"
    PROVE  \/ Heard("CONNECT")' \/ missed'
           \/ r = "CONNECT" /\ command = None
<1>1. "CONNECT" \in Words /\ "CONNECT" # None /\ "CONNECT" # "other"
  BY NoneIsNoWord DEF Words
<1>2. ASSUME rx # <<>>, rx' = Tail(rx)
      PROVE  /\ Head(rx) = rx[1] /\ rx[1] \in Pieces
             /\ \A i \in 1..Len(rx) : Readable("CONNECT", i) /\ i # 1 => Heard("CONNECT")'
             /\ buf = "CONNECT" => rx[1].word = "CONNECT" /\ rx[1].part = "tail"
  <2>1. /\ rx \in Seq(Pieces) /\ Len(rx) \in Nat /\ Len(rx') = Len(rx) - 1
        /\ \A i \in 1..Len(rx') : rx'[i] = rx[i + 1]
    BY <1>2, HeadTailProperties, LenProperties DEF ModemTypeOK
  <2>2. Head(rx) = rx[1] /\ rx[1] \in Pieces
    BY <1>2, <2>1, ElementOfSeq, EmptySeq
  <2>3. ASSUME NEW i \in 1..Len(rx), Readable("CONNECT", i), i # 1
        PROVE  Heard("CONNECT")'
    <3>1. i - 1 \in 1..Len(rx') /\ (i - 1) + 1 = i
      BY <2>1, <2>3
    <3>2. rx'[i - 1] = rx[i]
      BY <2>1, <3>1
    <3>3. \E n \in 1..Len(rx') :
              rx'[n].word = "CONNECT" /\ rx'[n].part \in {"line", "head"}
      BY <2>3, <3>1, <3>2 DEF Readable
    <3> QED
      BY <3>3 DEF Heard, Readable
  <2> QED
    BY <1>1, <1>2, <2>2, <2>3 DEF Paired
<1>3. CASE ReadsLine(r)
  <2>1. /\ rx # <<>> /\ rx' = Tail(rx) /\ Head(rx).part # "head"
        /\ Try(Whole(Head(rx)), r)
        /\ Head(rx).word = "CONNECT" /\ command # None => missed'
    BY <1>3 DEF ReadsLine
  <2>2. CASE buf = "CONNECT" \/ Readable("CONNECT", 1)
    <3>1. rx[1].word = "CONNECT" /\ Whole(rx[1]) = "CONNECT" /\ Head(rx) = rx[1]
      BY <1>2, <2>1, <2>2 DEF Whole, Readable
    <3>2. r = "CONNECT"
      BY <1>1, <2>1, <3>1 DEF Try
    <3> QED
      BY <2>1, <3>1, <3>2
  <2>3. CASE ~(buf = "CONNECT" \/ Readable("CONNECT", 1))
    BY <1>2, <2>1, <2>3 DEF Heard
  <2> QED
    BY <2>2, <2>3
<1>4. CASE ReadsPiece(r)
  <2>1. /\ rx # <<>> /\ rx' = Tail(rx) /\ Head(rx).part = "head" /\ buf' = Head(rx).word
    BY <1>4 DEF ReadsPiece
  <2>2. CASE Readable("CONNECT", 1)
    BY <1>2, <2>1, <2>2 DEF Readable, Heard
  <2>3. CASE ~Readable("CONNECT", 1)
    BY <1>2, <2>1, <2>3 DEF Heard
  <2> QED
    BY <2>2, <2>3
<1>5. CASE ReadsNothing(r)
  <2>1. rx = <<>> /\ (buf = "CONNECT" => missed')
    BY <1>5 DEF ReadsNothing
  <2>2. 1..Len(rx) = {}
    BY <2>1
  <2> QED
    BY <2>1, <2>2 DEF Heard
<1>6. CASE ReadFails(r)
  BY <1>6 DEF ReadFails
<1> QED
  BY <1>3, <1>4, <1>5, <1>6 DEF Reads

----------------------------------------------------------------------------
(* What each step does to the modem. *)

\* Nothing is heard of a closed port.
LEMMA ClosedHolds ==
    ASSUME pc' \in Offline, rx' = <<>>, cmds' = <<>>, line' = "idle", saying' = None,
           command' = None, left' = 0, buf' = None
    PROVE  ModemInv'
<1>1. Len(rx') = 0 /\ Len(cmds') = 0
  OBVIOUS
<1>2. pc' \notin {"reset", "init", "wait", "loop", "call", "hangup"}
  BY DEF Offline
<1>3. InPlace'
  BY <1>2 DEF InPlace
<1>4. Paired'
  BY <1>1 DEF Paired
<1>5. Noticed' /\ Ready'
  BY <1>2 DEF Noticed, Ready
<1>6. Current'
  BY <1>1 DEF Current
<1> QED
  BY <1>3, <1>4, <1>5, <1>6 DEF ModemInv

\* Before the connection, and after it.
LEMMA OfflineSteps ==
    ASSUME TypeOK, ModemInv,
           Options \/ OpenDatabase \/ DatabaseFails \/ ConnectFails \/ Start \/ EditTypes
           \/ CommandEnds \/ MainEnds \/ EndOfFile \/ Kill
    PROVE  ModemInv'
<1>1. ASSUME pc \in Offline, pc' \in Offline,
             UNCHANGED <<left, buf, command, rx, cmds, line, saying>>
      PROVE  ModemInv'
  <2>1. /\ rx = <<>> /\ cmds = <<>> /\ line = "idle" /\ saying = None /\ command = None
        /\ ~(left > 0)
    BY <1>1 DEF ModemInv, InPlace, Offline
  <2>2. left = 0 /\ buf = None
    BY <2>1, Bounds DEF TypeOK, ModemTypeOK, ModemInv, InPlace
  <2> QED
    BY <1>1, <2>1, <2>2, ClosedHolds
<1>2. CASE OptionModem
  BY <1>1, <1>2 DEF OptionModem, Offline, readVars, cmdVars, modemVars, mainVars
<1>3. CASE OptionLog \/ OptionPcap \/ OptionUdp \/ OptionsEnd \/ OptionsLeave \/ OptionsDone
  <2>1. pc \in Offline /\ pc' \in Offline
    BY <1>3 DEF OptionLog, OptionPcap, OptionUdp, Option, OptionsEnd, OptionsLeave, OptionsDone,
           Shutdown, Offline, mainVars
  <2>2. UNCHANGED allModemVars
    BY <1>3 DEF OptionLog, OptionPcap, OptionUdp, OptionsEnd, OptionsLeave, OptionsDone,
           StaysOnLine
  <2> QED
    BY <1>1, <2>1, <2>2 DEF allModemVars, readVars, cmdVars, modemVars
<1>4. CASE OpenDatabase \/ DatabaseFails \/ ConnectFails \/ EditTypes
  <2>1. pc \in Offline /\ pc' \in Offline
    BY <1>4 DEF OpenDatabase, DatabaseFails, ConnectFails, ConnectionFails, EditTypes,
           Shutdown, Offline, mainVars
  <2>2. UNCHANGED allModemVars
    BY <1>4 DEF OpenDatabase, DatabaseFails, ConnectFails, EditTypes, StaysOnLine
  <2> QED
    BY <1>1, <2>1, <2>2 DEF allModemVars, readVars, cmdVars, modemVars
<1>5. CASE Start
  BY <1>1, <1>5 DEF Start, Offline, readVars, cmdVars
<1>6. CASE CommandEnds \/ MainEnds \/ EndOfFile \/ Kill
  <2>1. pc' \in Offline /\ PortClosed
    BY <1>6 DEF CommandEnds, MainEnds, EndOfFile, Kill, ConnectionFails, Shutdown, Offline
  <2> QED
    BY <2>1, ClosedHolds DEF PortClosed
<1> QED
  BY <1>2, <1>3, <1>4, <1>5, <1>6 DEF Options

\* SIGINT, and the steps of a session that do not read.
LEMMA SilentSteps ==
    ASSUME ModemInv, Interrupt \/ SessionEnds \/ \E e \in Editions : Identify(e)
    PROVE  ModemInv'
<1>1. UNCHANGED allModemVars
  BY DEF Interrupt, SessionEnds, Identify
<1>2. UNCHANGED <<left, buf, command, tries, rx, broken, testing, cmds, config, line, saying,
                  late, missed>>
  BY <1>1 DEF allModemVars, readVars, cmdVars, portVars, modemVars
<1>3. \/ pc' = pc /\ (running' = running \/ ~running')
      \/ pc = "call" /\ pc' = "hangup"
  BY DEF Interrupt, SessionEnds, Identify, mainVars
<1>4. InPlace'
  BY <1>2, <1>3 DEF ModemInv, InPlace, Offline
<1>5. Paired'
  BY <1>2 DEF ModemInv, Paired, Follows
<1>6. Noticed'
  <2>1. Heard("CONNECT")' <=> Heard("CONNECT")
    BY <1>2 DEF Heard, Readable
  <2> QED
    BY <1>2, <1>3, <2>1 DEF ModemInv, Noticed
<1>7. Current'
  BY <1>2 DEF ModemInv, Current, Heard, Readable, AllOld
<1>8. Ready'
  BY <1>2, <1>3 DEF ModemInv, Ready
<1> QED
  BY <1>4, <1>5, <1>6, <1>7, <1>8 DEF ModemInv

\* The modem says something unasked, or the rest of a line, or the port fails.
LEMMA ModemSpeaks ==
    ASSUME TypeOK, ModemInv, Modem
    PROVE  ModemInv'
<1>1. pc' = pc /\ running' = running /\ pc \notin Offline /\ ModemNext
  BY DEF Modem, mainVars, Offline
<1>2. /\ ModemTypeOK /\ rx \in Seq(Pieces) /\ Len(rx) \in Nat
      /\ InPlace /\ Paired /\ Noticed /\ Current /\ Ready
  BY LenProperties DEF TypeOK, ModemTypeOK, ModemInv
<1>3. "OK" \in Words /\ "CONNECT" \in Words /\ "OK" # "CONNECT"
  BY DEF Words
<1>4. ASSUME NEW w \in Words \cup {"other"}, Says(w),
             UNCHANGED <<left, buf, command, broken, testing, cmds, config, late>>,
             w = "OK" => testing,
             \/ line' = line /\ missed' = missed
             \/ line' = "idle"
             \/ w = "CONNECT" /\ ~testing
      PROVE  ModemInv'
  <2>1. /\ Paired' /\ rx' # <<>>
        /\ \A x : \A i \in 1..Len(rx) :
               i \in 1..Len(rx') /\ (Readable(x, i)' <=> Readable(x, i))
        /\ \A x : \A i \in 1..Len(rx') : Readable(x, i)' => x = w \/ i \in 1..Len(rx)
        /\ \E n \in 1..Len(rx') : n \notin 1..Len(rx) /\ Readable(w, n)'
    BY <1>2, <1>4, SaysPaired
  <2>2. InPlace'
    BY <1>1, <1>2, <1>4 DEF InPlace
  <2>3. Noticed'
    <3>1. Heard("CONNECT") => Heard("CONNECT")'
      BY <1>4, <2>1 DEF Heard
    <3>2. w = "CONNECT" => Heard("CONNECT")'
      BY <2>1 DEF Heard
    <3> QED
      BY <1>1, <1>2, <1>4, <2>1, <3>1, <3>2 DEF Noticed
  <2>4. Current'
    <3>1. w = "OK" \/ \A i \in 1..Len(rx') :
              Readable("OK", i)' => i \in 1..Len(rx) /\ Readable("OK", i)
      BY <2>1
    <3>2. w = "OK" \/ (Heard("OK")' => Heard("OK"))
      BY <1>4, <3>1 DEF Heard
    <3>3. ASSUME ~late, ~testing
          PROVE  /\ \A i \in 1..Len(cmds) : ~cmds[i].old => i = Len(cmds) /\ cmds[i].text = command
                 /\ command # None =>
                        /\ Heard("OK") => config = command /\ AllOld
                        /\ \A i, j \in 1..Len(rx) :
                               Readable("OK", i) =>
                                   buf # "OK" /\ (Readable("OK", j) => i = j)
      BY <1>2, <3>3 DEF Current
    <3>4. ASSUME ~late', ~testing', command' # None
          PROVE  \A i, j \in 1..Len(rx') :
                     Readable("OK", i)' => buf' # "OK" /\ (Readable("OK", j)' => i = j)
      BY <1>4, <3>1, <3>3, <3>4
    <3>5. AllOld' <=> AllOld
      BY <1>4 DEF AllOld
    <3> QED
      BY <1>4, <3>2, <3>3, <3>4, <3>5 DEF Current
  <2>5. Ready'
    BY <1>1, <1>2, <1>4 DEF Ready
  <2> QED
    BY <2>1, <2>2, <2>3, <2>4, <2>5 DEF ModemInv
<1>5. CASE Babbles \/ FileSays \/ Rings
  <2>1. PICK w \in Words \cup {"other"} :
            Unasked(w) /\ UNCHANGED <<line, missed>> /\ (w = "OK" => testing)
    <3>1. CASE Babbles
      BY <3>1 DEF Babbles
    <3>3. CASE Rings
      <4>1. "RING" \in Words \cup {"other"} /\ "RING" # "OK"
        BY DEF Words
      <4> QED
        BY <3>3, <4>1 DEF Rings
    <3>2. CASE FileSays
      BY <3>2 DEF FileSays
    <3> QED
      BY <1>5, <3>1, <3>2, <3>3
  <2> QED
    BY <1>4, <2>1 DEF Unasked, readVars, cmdVars, portVars
<1>6. CASE CallComes
  BY <1>3, <1>4, <1>6 DEF CallComes, Unasked, readVars, cmdVars, portVars
<1>7. CASE CallGoes
  <2>1. "NO CARRIER" \in Words /\ "NO CARRIER" # "OK"
    BY DEF Words
  <2> QED
    BY <1>4, <1>7, <2>1 DEF CallGoes, Unasked, readVars, cmdVars, portVars
<1>8. CASE PortFails
  <2>1. UNCHANGED <<left, buf, command, rx, testing, cmds, config, line, saying, late, missed>>
    BY <1>8 DEF PortFails, readVars, cmdVars, modemVars
  <2>2. InPlace' /\ Paired'
    BY <1>1, <1>2, <2>1 DEF InPlace, Paired, Follows
  <2>3. Noticed' /\ Current' /\ Ready'
    BY <1>1, <1>2, <2>1 DEF Noticed, Current, Ready, Heard, Readable, AllOld
  <2> QED
    BY <2>2, <2>3 DEF ModemInv
<1>9. CASE Finishes
  <2>1. /\ saying # None /\ saying' = None
        /\ rx' = Append(rx, [word |-> saying, part |-> "tail"])
        /\ UNCHANGED <<left, buf, command, testing, cmds, config, line, late, missed>>
    BY <1>9 DEF Finishes, readVars, cmdVars, portVars
  <2> DEFINE x == [word |-> saying, part |-> "tail"]
  <2>2. x \in Pieces /\ x.word = saying /\ x.part = "tail"
    BY <1>2, <2>1 DEF Pieces, ModemTypeOK
  <2> HIDE DEF x
  <2>3. /\ rx' # <<>> /\ Len(rx') = Len(rx) + 1
        /\ \A i \in 1..Len(rx) : rx'[i] = rx[i]
        /\ rx'[Len(rx) + 1] = x
    BY <1>2, <2>1, <2>2, AppendProperties DEF x
  <2>4. ASSUME NEW i \in 1..Len(rx'), rx'[i].part = "head"
        PROVE  Follows(i)'
    <3>1. i \in 1..Len(rx) /\ rx'[i] = rx[i]
      BY <1>2, <2>2, <2>3, <2>4
    <3>2. Follows(i)
      BY <1>2, <2>4, <3>1 DEF Paired
    <3>3. CASE i < Len(rx)
      <4>1. i < Len(rx') /\ rx'[i + 1] = rx[i + 1]
        BY <1>2, <2>3, <3>1, <3>3
      <4> QED
        BY <3>1, <3>2, <3>3, <4>1 DEF Follows
    <3>4. CASE ~(i < Len(rx))
      <4>1. i = Len(rx) /\ i < Len(rx') /\ rx'[i + 1] = x
        BY <1>2, <2>3, <3>1, <3>4
      <4> QED
        BY <2>2, <3>1, <3>2, <3>4, <4>1 DEF Follows
    <3> QED
      BY <3>3, <3>4
  <2>5. ASSUME buf' # None
        PROVE  rx'[1].word = buf' /\ rx'[1].part = "tail"
    <3>1. CASE rx = <<>>
      <4>1. Len(rx) = 0
        BY ONLY <3>1
      <4> QED
        BY <1>2, <2>1, <2>2, <2>3, <2>5, <3>1, <4>1 DEF Paired
    <3>2. CASE rx # <<>>
      <4>1. 1 \in 1..Len(rx)
        BY <1>2, <3>2, EmptySeq
      <4> QED
        BY <1>2, <2>1, <2>3, <2>5, <3>2, <4>1 DEF Paired
    <3> QED
      BY <3>1, <3>2
  <2>6. Paired'
    BY <2>3, <2>4, <2>5 DEF Paired
  <2>7. \A w : \A i \in 1..Len(rx') :
            Readable(w, i)' => i \in 1..Len(rx) /\ Readable(w, i)
    BY <1>2, <2>2, <2>3 DEF Readable
  <2>8. \A w : \A i \in 1..Len(rx) : i \in 1..Len(rx') /\ (Readable(w, i) => Readable(w, i)')
    BY <1>2, <2>3 DEF Readable
  <2>9. \A w : Heard(w)' <=> Heard(w)
    BY <2>1, <2>7, <2>8 DEF Heard
  <2>10. InPlace' /\ Ready'
    BY <1>1, <1>2, <2>1 DEF InPlace, Ready
  <2>11. Noticed'
    BY <1>1, <1>2, <2>1, <2>3, <2>9 DEF Noticed
  <2>12. Current'
    BY <1>2, <2>1, <2>7, <2>9 DEF Current, AllOld
  <2> QED
    BY <2>6, <2>10, <2>11, <2>12 DEF ModemInv
<1>10. CASE Answers
  <2> DEFINE Cmds == [text : Commands, old : BOOLEAN]
  <2>1. /\ cmds # <<>> /\ cmds' = Tail(cmds) /\ line = "idle"
        /\ late' = (late \/ Head(cmds).old)
        /\ UNCHANGED <<left, buf, command, testing, line, missed>>
        /\ \/ Says("OK") /\ config' = Head(cmds).text
           \/ Says("ERROR") /\ UNCHANGED config
    BY <1>10 DEF Answers, readVars, cmdVars, portVars
  <2>2. /\ Len(cmds) \in Nat \ {0} /\ Len(cmds') = Len(cmds) - 1
        /\ \A i \in 1..Len(cmds') : cmds'[i] = cmds[i + 1]
        /\ Head(cmds) = cmds[1] /\ cmds[1] \in Cmds
    <3>1. cmds \in Seq(Cmds)
      BY <1>2 DEF ModemTypeOK
    <3> HIDE DEF Cmds
    <3>2. /\ Len(cmds) \in Nat \ {0} /\ Len(cmds') = Len(cmds) - 1
          /\ \A i \in 1..Len(cmds') : cmds'[i] = cmds[i + 1]
      BY <2>1, <3>1, HeadTailProperties, EmptySeq
    <3>3. Head(cmds) = cmds[1] /\ cmds[1] \in Cmds
      BY <2>1, <3>1, <3>2, ElementOfSeq
    <3> QED
      BY <3>2, <3>3
  <2>3. PICK w \in {"OK", "ERROR"} :
            Says(w) /\ config' = IF w = "OK" THEN cmds[1].text ELSE config
    BY <2>1, <2>2
  <2>4. w \in Words \cup {"other"}
    BY DEF Words
  <2>5. /\ Paired' /\ rx' # <<>>
        /\ \A x : \A i \in 1..Len(rx) :
               i \in 1..Len(rx') /\ (Readable(x, i)' <=> Readable(x, i))
        /\ \A x : \A i \in 1..Len(rx') : Readable(x, i)' => x = w \/ i \in 1..Len(rx)
    BY <1>2, <2>1, <2>3, <2>4, SaysPaired
  <2>6. InPlace' /\ Noticed'
    BY <1>1, <1>2, <2>1 DEF InPlace, Noticed
  <2>7. ASSUME ~late', ~testing'
        PROVE  /\ ~late /\ ~testing /\ ~cmds[1].old /\ Len(cmds) = 1 /\ Len(cmds') = 0
               /\ command = cmds[1].text /\ command # None
               /\ ~Heard("OK")
    <3>1. ~late /\ ~testing /\ ~cmds[1].old
      BY <2>1, <2>2, <2>7
    <3>2. 1 \in 1..Len(cmds)
      BY <2>2
    <3>3. 1 = Len(cmds) /\ cmds[1].text = command
      BY <1>2, <3>1, <3>2 DEF Current
    <3>4. command # None
      BY <2>2, <3>3, NoneIsNoWord
    <3>5. ~Heard("OK")
      BY <1>2, <3>1, <3>2, <3>4 DEF Current, AllOld
    <3>6. Len(cmds') = 0
      BY <2>2, <3>3
    <3> QED
      BY <3>1, <3>3, <3>4, <3>5, <3>6
  <2>8. Current'
    <3>1. ASSUME ~late', ~testing'
          PROVE  /\ AllOld' /\ Len(cmds') = 0 /\ (Heard("OK")' => config' = command')
                 /\ \A i, j \in 1..Len(rx') :
                        Readable("OK", i)' => buf' # "OK" /\ (Readable("OK", j)' => i = j)
      <4>1. AllOld' /\ Len(cmds') = 0
        BY <2>7, <3>1 DEF AllOld
      <4>2. buf' # "OK" /\ \A i \in 1..Len(rx) : ~Readable("OK", i)'
        BY <2>1, <2>5, <2>7, <3>1 DEF Heard
      <4>3. Heard("OK")' => w = "OK"
        BY <2>5, <4>2 DEF Heard
      <4>4. Heard("OK")' => config' = command'
        BY <2>1, <2>3, <2>7, <3>1, <4>3
      <4>5. Len(rx') = Len(rx) + 1
        BY <1>2, <2>3, <2>4, SaysTypes
      <4>6. \A i \in 1..Len(rx') : i \notin 1..Len(rx) => i = Len(rx) + 1
        BY <1>2, <4>5
      <4>7. \A i \in 1..Len(rx') : Readable("OK", i)' => i = Len(rx) + 1
        BY <4>2, <4>6
      <4> QED
        BY <4>1, <4>2, <4>4, <4>7
    <3> QED
      BY <3>1 DEF Current
  <2>9. Ready'
    BY <1>1, <1>2, <2>7 DEF Ready, InPlace
  <2> QED
    BY <2>5, <2>6, <2>8, <2>9 DEF ModemInv
<1> QED
  BY <1>1, <1>5, <1>6, <1>7, <1>8, <1>9, <1>10 DEF ModemNext

\* What the parts of ModemInv say while the port is open.
LEMMA Online ==
    ASSUME TypeOK, ModemInv
    PROVE  /\ ModemTypeOK /\ InPlace /\ Paired /\ Noticed /\ Current /\ Ready
           /\ left \in Nat /\ (left = 0 => buf = None)
           /\ pc \in {"reset", "init"} => command = pc /\ command # None
           /\ pc \notin {"reset", "init"} => command = None
           /\ pc \notin {"reset", "init", "wait"} => left = 0 /\ buf = None
<1>1. /\ ModemTypeOK /\ InPlace /\ Paired /\ Noticed /\ Current /\ Ready /\ left \in Nat
  BY Bounds DEF TypeOK, ModemTypeOK, ModemInv
<1>2. pc \in {"reset", "init"} => command = pc /\ command # None
  BY <1>1, NoneIsNoWord DEF InPlace, Commands
<1>3. pc \notin {"reset", "init", "wait"} => left = 0
  BY <1>1 DEF InPlace
<1> QED
  BY <1>1, <1>2, <1>3 DEF InPlace

\* mm_connection_open has the port, and the first command is to be sent.
LEMMA ConnectHolds ==
    ASSUME TypeOK, ModemInv, Connect
    PROVE  ModemInv'
<1>1. /\ pc = "connect" /\ pc' \in {"reset", "init"} /\ command' = pc'
      /\ UNCHANGED <<left, buf, rx, testing, cmds, config, line, saying, late, missed>>
  BY DEF Connect, readVars, modemVars
<1>2. rx = <<>> /\ cmds = <<>> /\ line = "idle" /\ saying = None /\ left = 0 /\ buf = None
  BY <1>1, Online DEF InPlace, Offline
<1>3. Len(rx') = 0 /\ Len(cmds') = 0
  BY <1>1, <1>2
<1>4. InPlace'
  BY <1>1, <1>2 DEF InPlace, Offline
<1>5. Paired' /\ Noticed' /\ Ready'
  BY <1>1, <1>2, <1>3 DEF Paired, Noticed, Ready
<1>6. Current'
  <2>1. "OK" # None
    BY NoneIsNoWord DEF Words
  <2>2. ~Heard("OK")' /\ AllOld'
    BY <1>1, <1>2, <1>3, <2>1 DEF Heard, AllOld
  <2> QED
    BY <1>3, <2>2 DEF Current
<1> QED
  BY <1>4, <1>5, <1>6 DEF ModemInv

\* A command is accepted: the modem's answer is the answer to it.
LEMMA AcceptedHolds ==
    ASSUME TypeOK, ModemInv, CommandOK
    PROVE  ModemInv'
<1>1. /\ pc \in {"reset", "init"} /\ Reads("OK")
      /\ \/ pc = "reset" /\ pc' = "init" /\ command' = "init"
         \/ pc = "init" /\ pc' = "loop" /\ command' = None
  BY DEF CommandOK
<1>2. /\ ModemTypeOK /\ InPlace /\ Paired /\ Noticed /\ Current /\ Ready
      /\ command = pc /\ command # None
  BY <1>1, Online
<1>3. /\ Paired' /\ left' = 0 /\ buf' = None /\ (missed => missed')
      /\ UNCHANGED <<testing, cmds, config, line, saying, late>>
  BY <1>1, <1>2, ReadsWell, NoneIsNoWord DEF Words
<1>4. left > 0 /\ left # 0
  BY <1>1, <1>2, Online DEF Reads
<1>5. InPlace'
  BY <1>1, <1>2, <1>3 DEF InPlace, Offline
<1>6. Noticed'
  <2>1. Heard("CONNECT") => Heard("CONNECT")' \/ missed'
    BY <1>1, <1>2, ReadsNoticed
  <2> QED
    BY <1>1, <1>2, <1>3, <1>4, <2>1 DEF Noticed
<1>7. ASSUME ~late, ~testing
      PROVE  AllOld /\ ~Heard("OK")' /\ config = command
  <2>1. \A i, j \in 1..Len(rx) :
            Readable("OK", i) => buf # "OK" /\ (Readable("OK", j) => i = j)
    BY <1>2, <1>7 DEF Current
  <2>2. Heard("OK") /\ ~Heard("OK")'
    BY <1>1, <1>2, <2>1, ReadsCurrent
  <2> QED
    BY <1>2, <1>7, <2>2 DEF Current
<1>8. Current'
  BY <1>3, <1>7 DEF Current, AllOld, Heard
<1>9. Ready'
  BY <1>1, <1>2, <1>3, <1>7 DEF Ready
<1> QED
  BY <1>3, <1>5, <1>6, <1>8, <1>9 DEF ModemInv

\* Every other read of a response.
LEMMA ReadHolds ==
    ASSUME TypeOK, ModemInv, NEW r, Reads(r), UNCHANGED command,
           \/ pc' = pc /\ running' = running /\ pc \in {"reset", "init"} /\ r # "OK"
           \/ pc' = pc /\ running' = running /\ pc = "wait" /\ r = None
           \/ /\ pc' = "loop" /\ running' = running /\ pc = "wait"
              /\ r \in {"RING", "OK", "NULL", "ERROR"}
           \/ pc' \in {"call", "hangup"} /\ pc = "wait" /\ r \in {"CONNECT", "NO CARRIER"}
           \/ pc' = "loop" /\ ~running' /\ pc = "wait" /\ r = "READ_ERROR"
    PROVE  ModemInv'
<1>1. /\ ModemTypeOK /\ InPlace /\ Paired /\ Noticed /\ Current /\ Ready
      /\ pc \in {"reset", "init"} => command # None
      /\ pc = "wait" => command = None
  BY Online
<1>2. /\ Paired' /\ (IF r = None THEN left' > 0 ELSE left' = 0 /\ buf' = None)
      /\ left' = 0 => buf' = None
      /\ r = "READ_ERROR" => rx' = rx /\ missed' = missed
      /\ missed => missed'
      /\ UNCHANGED <<testing, cmds, config, line, saying, late>>
  BY <1>1, ReadsWell
<1>3. left > 0 /\ left # 0
  BY <1>1, ReadsLeft
<1>4. /\ pc' \notin Offline /\ pc \notin Offline
      /\ pc' \notin {"reset", "init"} => pc \notin {"reset", "init"}
      /\ r = None => pc' \in {"reset", "init", "wait"}
      /\ pc' = "wait" => r = None
      /\ pc' \in {"reset", "init"} => pc' = pc
  BY NoneIsNoWord DEF Offline, Words
<1>5. ~(left' > 0) \/ r = None
  BY <1>1, ReadsLeft
<1>6. InPlace'
  BY <1>1, <1>2, <1>4, <1>5 DEF InPlace
<1>7. Noticed'
  <2>1. r # "READ_ERROR" /\ Heard("CONNECT") =>
            Heard("CONNECT")' \/ missed' \/ (r = "CONNECT" /\ command = None)
    BY <1>1, ReadsNoticed
  <2>2. CASE pc \in {"reset", "init"} /\ r # "READ_ERROR"
    BY <1>1, <1>2, <1>3, <2>1, <2>2 DEF Noticed
  <2>3. CASE pc \in {"reset", "init"} /\ r = "READ_ERROR"
    BY <1>2, <2>3, NoneIsNoWord DEF Noticed
  <2>4. CASE pc = "wait" /\ r \notin {"READ_ERROR", "CONNECT"}
    BY <1>1, <1>2, <2>1, <2>4 DEF Noticed
  <2>5. CASE pc = "wait" /\ r = "CONNECT"
    BY <2>5, NoneIsNoWord DEF Noticed, Words
  <2>6. CASE pc = "wait" /\ r = "READ_ERROR"
    <3>1. Heard("CONNECT") => saying # None \/ rx # <<>>
      <4>1. "CONNECT" # None
        BY NoneIsNoWord DEF Words
      <4>2. ASSUME rx = <<>>
            PROVE  1..Len(rx) = {}
        BY ONLY <4>2
      <4> QED
        BY <1>1, <4>1, <4>2 DEF Heard, Paired
    <3>2. pc' = "loop" /\ ~running'
      BY <2>6, NoneIsNoWord
    <3> QED
      BY <1>1, <1>2, <2>6, <3>1, <3>2 DEF Noticed
  <2> QED
    BY <2>2, <2>3, <2>4, <2>5, <2>6
<1>8. Current'
  <2>1. ASSUME ~late, ~testing, command # None
        PROVE  /\ Heard("OK")' => Heard("OK")
               /\ Heard("OK") => config = command /\ AllOld
               /\ \A i, j \in 1..Len(rx') :
                      Readable("OK", i)' => buf' # "OK" /\ (Readable("OK", j)' => i = j)
    <3>1. /\ \A i, j \in 1..Len(rx) :
                 Readable("OK", i) => buf # "OK" /\ (Readable("OK", j) => i = j)
          /\ Heard("OK") => config = command /\ AllOld
      BY <1>1, <2>1 DEF Current
    <3>2. "OK" \in Words
      BY DEF Words
    <3> QED
      BY <1>1, <3>1, <3>2, ReadsCurrent, ReadsHeard
  <2> QED
    BY <1>1, <1>2, <2>1 DEF Current, AllOld
<1>9. Ready'
  BY <1>1, <1>2, <1>4 DEF Ready, Offline
<1> QED
  BY <1>2, <1>6, <1>7, <1>8, <1>9 DEF ModemInv

\* Another try of a command.
LEMMA TryHolds ==
    ASSUME TypeOK, ModemInv, CommandTries
    PROVE  ModemInv'
<1>1. pc \in {"reset", "init"} /\ pc' = pc /\ TryCommand
  BY DEF CommandTries, mainVars
<1>2. /\ ModemTypeOK /\ InPlace /\ Paired /\ Current
      /\ command = pc /\ command # None /\ left = 0 /\ buf = None
  BY <1>1, Online DEF TryCommand
<1>3. /\ UNCHANGED <<command, testing, config, line, saying, late>>
      /\ missed' = (missed \/ line = "up")
      /\ buf' = None /\ rx' = IF testing THEN rx ELSE <<>>
      /\ cmds' \in {Old(cmds), Append(Old(cmds), [text |-> command, old |-> FALSE])}
  <2>1. /\ UNCHANGED <<command, testing, config, line, saying, late>>
        /\ missed' = (missed \/ line = "up")
    BY <1>1 DEF TryCommand, portVars
  <2>2. Flushed(rx) = IF testing THEN rx ELSE <<>>
    BY DEF Flushed
  <2>3. buf' = None /\ rx' = Flushed(rx)
    BY <1>1, <1>2 DEF TryCommand, BeginWait, Drained, readVars
  <2>4. cmds' \in {Old(cmds), Append(Old(cmds), [text |-> command, old |-> FALSE])}
    BY <1>1 DEF TryCommand
  <2> QED
    BY <2>1, <2>2, <2>3, <2>4
<1>4. InPlace'
  BY <1>1, <1>2, <1>3 DEF InPlace, Offline
<1>5. Paired'
  <2>1. CASE testing
    BY <1>2, <1>3, <2>1 DEF Paired, Follows
  <2>2. CASE ~testing
    <3>1. Len(rx') = 0
      BY <1>3, <2>2
    <3> QED
      BY <1>3, <3>1 DEF Paired
  <2> QED
    BY <2>1, <2>2
<1>6. line' = "up" => missed'
  BY <1>3
<1>7. Noticed' /\ Ready'
  BY <1>1, <1>6 DEF Noticed, Ready
<1>8. Current'
  <2> DEFINE new == [text |-> command, old |-> FALSE]
             Cmds == [text : Commands, old : BOOLEAN]
  <2>1. /\ Len(Old(cmds)) = Len(cmds) /\ Len(cmds) \in Nat
        /\ Old(cmds) \in Seq(Cmds)
        /\ \A i \in 1..Len(cmds) : Old(cmds)[i].old
    <3>1. cmds \in Seq(Cmds) /\ Len(cmds) \in Nat
      BY <1>2, LenProperties DEF ModemTypeOK
    <3>2. ASSUME NEW i \in 1..Len(cmds)
          PROVE  [cmds[i] EXCEPT !.old = TRUE] \in Cmds /\ [cmds[i] EXCEPT !.old = TRUE].old
      <4>1. cmds[i] \in Cmds
        BY <3>1, <3>2, ElementOfSeq
      <4> QED
        BY <4>1
    <3>3. /\ Old(cmds) = [i \in 1..Len(cmds) |-> [cmds[i] EXCEPT !.old = TRUE]]
          /\ DOMAIN Old(cmds) = 1..Len(cmds)
      BY DEF Old
    <3> HIDE DEF Cmds
    <3>4. Old(cmds) \in Seq(Cmds) /\ Len(Old(cmds)) = Len(cmds)
      BY <3>1, <3>2, <3>3, SeqDef, LenProperties
    <3> QED
      BY <3>1, <3>2, <3>3, <3>4
  <2>2. new \in Cmds /\ new.text = command
    BY <1>2 DEF ModemTypeOK
  <2> HIDE DEF new, Cmds
  <2>3. \A i \in 1..Len(cmds') :
            cmds'[i].old \/ (i = Len(cmds') /\ cmds'[i].text = command)
    <3>1. CASE cmds' = Old(cmds)
      BY <2>1, <3>1
    <3>2. CASE cmds' = Append(Old(cmds), new)
      <4>1. /\ Len(cmds') = Len(cmds) + 1
            /\ \A i \in 1..Len(cmds) : cmds'[i] = Old(cmds)[i]
            /\ cmds'[Len(cmds) + 1] = new
        BY <2>1, <2>2, <3>2, AppendProperties
      <4>2. \A i \in 1..Len(cmds') : i \in 1..Len(cmds) \/ i = Len(cmds) + 1
        BY <2>1, <4>1
      <4> QED
        BY <2>1, <2>2, <4>1, <4>2
    <3> QED
      BY <1>3, <3>1, <3>2 DEF new
  <2>4. ~testing => Len(rx') = 0
    BY <1>3
  <2>5. ~testing => ~Heard("OK")'
    <3>1. "OK" # None
      BY NoneIsNoWord DEF Words
    <3> QED
      BY <1>3, <2>4, <3>1 DEF Heard
  <2> QED
    BY <1>3, <2>3, <2>4, <2>5 DEF Current
<1> QED
  BY <1>4, <1>5, <1>7, <1>8 DEF ModemInv

\* The wait for a call, the end of a call, and what is read in one.
LEMMA CallSteps ==
    ASSUME TypeOK, ModemInv, WaitForCall \/ HangUp \/ SessionReads
    PROVE  ModemInv'
<1>1. /\ ModemTypeOK /\ InPlace /\ Paired /\ Noticed /\ Current /\ Ready
  BY Online
<1>2. CASE WaitForCall
  <2>1. /\ pc = "loop" /\ running /\ pc' = "wait" /\ running' = running
        /\ left = 0 /\ left' = 1 /\ buf' = None /\ rx' = rx
        /\ UNCHANGED <<command, testing, cmds, config, line, saying, late, missed>>
    BY <1>2 DEF WaitForCall, LoopGoesOn, BeginWait, Drained, cmdVars, portVars, modemVars
  <2>2. buf' = buf /\ command = None
    BY <2>1, Online
  <2>3. InPlace'
    BY <1>1, <2>1 DEF InPlace, Offline
  <2>4. Paired' /\ Noticed' /\ Ready'
    BY <1>1, <2>1, <2>2 DEF Paired, Follows, Noticed, Heard, Readable, Ready
  <2>5. Current'
    BY <1>1, <2>1, <2>2 DEF Current, AllOld
  <2> QED
    BY <2>3, <2>4, <2>5 DEF ModemInv
<1>3. CASE HangUp
  <2>1. /\ pc = "hangup" /\ pc' = "loop" /\ line' = "idle"
        /\ UNCHANGED <<left, buf, command, testing, cmds, config, late>>
        /\ UNCHANGED <<rx, saying>> \/ Says("NO CARRIER")
    BY <1>3 DEF HangUp, HangsUp, readVars, cmdVars, portVars
  <2>2. left = 0 /\ buf = None /\ command = None
    BY <2>1, Online
  <2>3. InPlace'
    BY <1>1, <2>1, <2>2 DEF InPlace, Offline
  <2>4. Paired'
    <3>1. "NO CARRIER" \in Words \cup {"other"}
      BY DEF Words
    <3> QED
      BY <1>1, <2>1, <3>1, SaysPaired DEF Paired, Follows
  <2>5. Noticed' /\ Ready'
    BY <1>1, <2>1 DEF Noticed, Ready
  <2>6. Current'
    BY <1>1, <2>1, <2>2 DEF Current, AllOld
  <2> QED
    BY <2>3, <2>4, <2>5, <2>6 DEF ModemInv
<1>4. CASE SessionReads
  <2>1. /\ pc = "call" /\ pc' = "call" /\ rx # <<>> /\ rx' = Tail(rx)
        /\ UNCHANGED <<left, buf, command, testing, cmds, config, line, saying, late>>
    BY <1>4 DEF SessionReads, readVars, cmdVars, portVars, modemVars, mainVars
  <2>2. left = 0 /\ buf = None /\ command = None
    BY <2>1, Online
  <2>3. InPlace'
    BY <1>1, <2>1, <2>2 DEF InPlace, Offline
  <2>4. Paired'
    BY <1>1, <2>1, <2>2, TakenPaired
  <2>5. Noticed' /\ Ready'
    BY <1>1, <2>1 DEF Noticed, Ready
  <2>6. Current'
    BY <1>1, <2>1, <2>2 DEF Current, AllOld
  <2> QED
    BY <2>3, <2>4, <2>5, <2>6 DEF ModemInv
<1> QED
  BY <1>2, <1>3, <1>4

LEMMA ModemStep ==
    ASSUME TypeOK, ModemInv, Next
    PROVE  ModemInv'
<1>1. CASE CommandWaits
  <2>1. PICK r \in (Responses \ {"OK"}) \cup {None} : Reads(r)
    BY <1>1 DEF CommandWaits
  <2>2. r # "OK"
    BY NoneIsNoWord DEF Words
  <2>3. pc' = pc /\ running' = running /\ pc \in {"reset", "init"} /\ UNCHANGED command
    BY <1>1 DEF CommandWaits, mainVars, cmdVars
  <2> QED
    BY <2>1, <2>2, <2>3, ReadHolds
<1>2. CASE Waits
  BY <1>2, ReadHolds DEF Waits, mainVars, cmdVars
<1>3. CASE NoCall
  BY <1>3, ReadHolds DEF NoCall, cmdVars
<1>4. CASE CallConnects
  BY <1>4, ReadHolds DEF CallConnects, cmdVars
<1>5. CASE CarrierLost
  BY <1>5, ReadHolds DEF CarrierLost, cmdVars
<1>6. CASE ModemError
  BY <1>6, ReadHolds DEF ModemError, cmdVars
<1> QED
  BY <1>1, <1>2, <1>3, <1>4, <1>5, <1>6, OfflineSteps, SilentSteps, ModemSpeaks, ConnectHolds,
     AcceptedHolds, TryHolds, CallSteps
  DEF Next, Main, Session

----------------------------------------------------------------------------
(* The theorems. *)

LEMMA Initially == Init => IInv
<1> SUFFICES ASSUME Init
             PROVE  IInv
  OBVIOUS
<1>1. ModemInit /\ pc = "exited" /\ objects = <<>> /\ cur = NoObjects /\ ending = "none"
  BY DEF Init
<1>2. Len(objects) = 0 /\ Len(rx) = 0 /\ Len(cmds) = 0
  BY <1>1 DEF ModemInit
<1>3. ModemTypeOK
  <2>1. <<>> \in Seq(Pieces) /\ <<>> \in Seq([text : Commands, old : BOOLEAN])
    BY EmptySeq
  <2>2. left \in 0..RSP_TRIES /\ tries \in 0..AT_TRIES /\ said \in 0..MaxSaid /\ torn \in 0..MaxTorn
    BY <1>1, Bounds DEF ModemInit
  <2>3. config \in Commands \cup {None, "kept"}
    BY <1>1 DEF ModemInit
  <2> QED
    BY <1>1, <2>1, <2>2, <2>3 DEF ModemInit, ModemTypeOK
<1>4. TypeOK
  <2>1. <<>> \in Seq(Objects)
    BY EmptySeq
  <2>2. csv \in Files /\ 0 \in 0..MaxStarts /\ 0 \in 0..MaxEdits
        /\ cur \in [Locals -> 0..(MaxOptions + 2)]
    BY <1>1, LifecycleAssumption DEF Init, NoObjects
  <2> QED
    BY <1>3, <2>1, <2>2 DEF Init, TypeOK
<1>5. InPlace /\ Paired /\ Noticed /\ Ready
  BY <1>1, <1>2 DEF ModemInit, InPlace, Paired, Noticed, Ready, Offline
<1>6. Current
  BY <1>1, <1>2 DEF ModemInit, Current
<1>7. ObjectInv
  BY <1>1, <1>2 DEF ObjectInv, Running, Counted, ClosedOnce, EndsClosed
<1> QED
  BY <1>4, <1>5, <1>6, <1>7 DEF IInv, ModemInv

LEMMA Inductive == IInv /\ [Next]_vars => IInv'
<1> SUFFICES ASSUME IInv, [Next]_vars
             PROVE  IInv'
  OBVIOUS
<1>1. CASE Next
  <2>1. TypeOK /\ ModemInv /\ ObjectInv /\ ModemTypeOK /\ InPlace
    BY DEF IInv, ModemInv, TypeOK
  <2>2. ObjectTypeOK' /\ ObjectInv'
    BY <1>1, <2>1, ObjectsStep
  <2>3. ModemTypeOK'
    BY <1>1, <2>1, ModemTypesStep
  <2>4. TypeOK'
    BY <1>1, <2>1, <2>2, <2>3, TypesStep
  <2>5. ModemInv'
    BY <1>1, <2>1, ModemStep
  <2> QED
    BY <2>2, <2>4, <2>5 DEF IInv
<1>2. CASE UNCHANGED vars
  <2> USE <1>2 DEF vars, allModemVars, readVars, cmdVars, portVars, modemVars, mainVars, objVars,
                   typeVars, optVars, endVars
  <2>1. TypeOK'
    BY DEF IInv, TypeOK, ModemTypeOK
  <2>2. InPlace' /\ Paired' /\ Noticed' /\ Current' /\ Ready'
    BY DEF IInv, ModemInv, InPlace, Paired, Follows, Noticed, Current, Ready, Heard, Readable,
           AllOld
  <2>3. Running' /\ Counted'
    BY DEF IInv, ObjectInv, Running, Counted, Names, InUse
  <2>4. ClosedOnce' /\ EndsClosed'
    BY DEF IInv, ObjectInv, ClosedOnce, EndsClosed
  <2> QED
    BY <2>1, <2>2, <2>3, <2>4 DEF IInv, ModemInv, ObjectInv
<1> QED
  BY <1>1, <1>2

LEMMA Invariant == Spec => []IInv
  BY Initially, Inductive, PTL DEF Spec

\* Every variable has its type: the program's, the serial port's and the modem's.
THEOREM TypeCorrect == Spec => []TypeOK
<1>1. IInv => TypeOK
  BY DEF IInv
<1> QED
  BY <1>1, Invariant, PTL

\* On every path from an option to the end, whatever fails in between, no stream, socket or
\* port is closed a second time, except where mm_connection_open has closed them already
\* (mm_connection.c:43) and for the socket of a second -u.
THEOREM NeverClosedTwice == Spec => []ClosedOnce
<1>1. IInv => ClosedOnce
  BY DEF IInv, ObjectInv
<1> QED
  BY <1>1, Invariant, PTL

\* What mm_shutdown ends, it leaves nothing open, but what a repeated option replaced.
THEOREM NothingLeftOpen == Spec => []EndsClosed
<1>1. IInv => EndsClosed
  BY DEF IInv, ObjectInv
<1> QED
  BY <1>1, Invariant, PTL

\* mm_connection_wait is reached only with a modem that has accepted its initialization
\* string, whatever else it says, and in however many pieces, unless an answer came after the
\* try it answers.
THEOREM WaitsConfigured == Spec => []InitMeansConfigured
<1>1. IInv => InitMeansConfigured
  BY DEF IInv, ModemInv, Ready, InitMeansConfigured
<1> QED
  BY <1>1, Invariant, PTL

\* A CONNECT that mm_connection_wait could have read in one piece is a call.
THEOREM CallsNoticed == Spec => []ConnectNoticed
<1>1. ASSUME IInv, line = "up", rx = <<>>, saying = None, pc \in {"loop", "wait"}
      PROVE  missed
  <2>1. Len(rx) = 0
    BY ONLY <1>1
  <2>2. "CONNECT" # None
    BY NoneIsNoWord DEF Words
  <2>3. ~Heard("CONNECT")
    BY <1>1, <2>1, <2>2 DEF IInv, ModemInv, Paired, Heard
  <2> QED
    BY <1>1, <2>3 DEF IInv, ModemInv, Noticed
<1>2. IInv => ConnectNoticed
  BY <1>1 DEF ConnectNoticed
<1> QED
  BY <1>2, Invariant, PTL

\* No start changes the type that an earlier one has given to a control ROM edition.
THEOREM TypesStay == Spec => TypesKept
<1> DEFINE Kept == \A e \in Editions : termtyp[e] # Unknown => termtyp'[e] = termtyp[e]
<1>1. ASSUME [Next]_vars
      PROVE  [Kept]_vars
  <2>1. CASE OpenDatabase
    <3>1. PICK inserted \in SUBSET Editions : termtyp' = AddTypes(inserted)
      BY <2>1 DEF OpenDatabase
    <3> QED
      BY <3>1 DEF AddTypes
  <2>2. CASE UNCHANGED termtyp
    BY <2>2
  <2>3. CASE Options
    BY <2>2, <2>3
    DEF Options, OptionLog, OptionPcap, OptionUdp, OptionModem, OptionsEnd, OptionsLeave,
        OptionsDone, Shutdown, typeVars
  <2>4. CASE DatabaseFails \/ ConnectFails \/ Connect \/ CommandOK \/ CommandWaits
             \/ CommandTries \/ CommandEnds
    BY <2>2, <2>4
    DEF DatabaseFails, ConnectFails, Connect, CommandOK, CommandWaits, CommandTries, CommandEnds,
        ConnectionFails, Shutdown, typeVars
  <2>5. CASE WaitForCall \/ Waits \/ NoCall \/ CallConnects \/ CarrierLost \/ ModemError
             \/ HangUp \/ MainEnds \/ EndOfFile
    BY <2>2, <2>5
    DEF WaitForCall, Waits, NoCall, CallConnects, CarrierLost, ModemError, HangUp, MainEnds,
        EndOfFile, Shutdown, typeVars
  <2>6. CASE Session \/ Start \/ Modem \/ Interrupt \/ Kill \/ EditTypes
    BY <2>2, <2>6
    DEF Session, SessionReads, SessionEnds, Identify, Start, Modem, Interrupt, Kill, EditTypes,
        typeVars
  <2> QED
    BY <1>1, <2>1, <2>3, <2>4, <2>5, <2>6 DEF Next, Main
<1> QED
  BY <1>1, PTL DEF Spec, TypesKept
================================================================================
