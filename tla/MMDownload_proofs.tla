-------------------------- MODULE MMDownload_proofs -------------------------
(***************************************************************************)
(* What the download log proves, for every set of terminals, models and    *)
(* tables, every list of tables, with and without -c.                      *)
(***************************************************************************)
EXTENDS MMDownload, TLAPS

\* The tables a download is done with are at the terminal, unless in doubt.
DoneIsAtTerminal ==
    pc = "download" =>
        /\ forced => caller \notin lost
        /\ \A id \in Tables :
              id \notin left /\ ~ModelServes(caller, id) /\ id \notin doubtful[caller]
                  => has[caller][id] = Loaded(caller, id)

\* The inductive invariant.
IInv ==
    /\ TypeOK
    /\ LogProves
    /\ DoneIsAtTerminal

LEMMA TimesAreNumbers ==
    ASSUME DownloadAssumption, TypeOK
    PROVE  /\ now \in Nat /\ now >= 1 /\ MaxTime \in Nat
           /\ \A t \in Terminals : log[t] \in Nat /\ log[t] <= now
           /\ \A d \in Dirs, id \in Tables : mtime[<<d, id>>] \in Nat /\ mtime[<<d, id>>] <= now
           /\ Terminals \subseteq Dirs /\ Models \subseteq Dirs /\ Default \in Dirs
           /\ model \in Models
  BY DEF DownloadAssumption, TypeOK, Dirs

\* load_mm_table reads a file that is there, or none.
LEMMA LoadedType ==
    ASSUME DownloadAssumption, TypeOK, NEW t \in Terminals, NEW id \in Tables
    PROVE  Loaded(t, id) \in Contents
<1>1. \A d \in Dirs : Exists(d, id) => Version(d, id) \in Contents
  <2> SUFFICES ASSUME NEW d \in Dirs, Exists(d, id) PROVE mtime[<<d, id>>] \in 1..MaxTime
    BY DEF Version, Contents
  <2>1. mtime[<<d, id>>] \in 0..MaxTime /\ mtime[<<d, id>>] > 0 /\ MaxTime \in Nat
    BY DEF TypeOK, Exists, DownloadAssumption
  <2> QED
    BY <2>1
<1>2. None \in Contents
  BY DEF Contents
<1> QED
  BY <1>1, <1>2, TimesAreNumbers DEF Loaded

\* What the file system and the model decide is unchanged while they are.
LEMMA SameFiles ==
    ASSUME UNCHANGED mtime, NEW t \in Terminals, NEW id \in Tables
    PROVE  /\ Checked(t, id)' = Checked(t, id)
           /\ ModelServes(t, id)' = ModelServes(t, id)
           /\ model' = model \/ (TypeOK /\ TypeOK' /\ ~ModelServes(t, id))
                => Loaded(t, id)' = Loaded(t, id)
<1>1. \A d : Exists(d, id)' = Exists(d, id) /\ Version(d, id)' = Version(d, id)
  BY DEF Exists, Version
<1>2. Checked(t, id)' = Checked(t, id) /\ ModelServes(t, id)' = ModelServes(t, id)
  BY <1>1 DEF Checked, ModelServes
<1>3. CASE model' = model
  BY <1>1, <1>2, <1>3 DEF Loaded
<1>4. ASSUME TypeOK, TypeOK', ~ModelServes(t, id)
      PROVE  Loaded(t, id)' = Loaded(t, id)
  <2>1. CASE Exists(t, id)
    BY <1>1, <2>1 DEF Loaded
  <2>2. CASE ~Exists(t, id)
    <3>1. ~Exists(model, id) /\ ~Exists(model', id)
      BY <1>4, <2>2 DEF ModelServes, TypeOK
    <3>2. ~Exists(model, id)'
      BY <1>1, <3>1 DEF Exists
    <3> QED
      BY <1>1, <2>2, <3>1, <3>2 DEF Loaded
  <2> QED
    BY <2>1, <2>2
<1> QED
  BY <1>2, <1>3, <1>4

\* A file that is written is not older than any log, and another file serves as before.
LEMMA OtherFiles ==
    ASSUME DownloadAssumption, TypeOK, TypeOK', NEW f \in Files, Write(f),
           NEW t \in Terminals, NEW id \in Tables
    PROVE  \/ f[2] = id /\ ModelServes(t, id)'
           \/ f[2] = id /\ ~Older(t, id)'
           \/ /\ Checked(t, id)' = Checked(t, id)
              /\ ModelServes(t, id)' = ModelServes(t, id)
              /\ Loaded(t, id)' = Loaded(t, id)
<1>1. PICK d \in Dirs, i \in Tables : f = <<d, i>>
  BY DEF DownloadAssumption
<1>2. /\ mtime' = [mtime EXCEPT ![<<d, i>>] = now] /\ log' = log /\ model' = model
      /\ mtime \in [Dirs \X Tables -> 0..MaxTime]
  BY <1>1 DEF Write, manager, TypeOK
<1>3. \A e \in Dirs : <<e, id>> # <<d, i>> => mtime'[<<e, id>>] = mtime[<<e, id>>]
  BY <1>2
<1>4. /\ mtime'[<<d, i>>] = now /\ now > 0 /\ ~(now < log[t])
  <2>1. mtime'[<<d, i>>] = now
    BY <1>1, <1>2
  <2> QED
    BY <2>1, TimesAreNumbers
<1>5. t \in Dirs /\ Default \in Dirs /\ model \in Dirs /\ Models \subseteq Dirs
  BY TimesAreNumbers DEF Dirs
<1>6. CASE i # id
  <2>1. \A e \in Dirs : mtime'[<<e, id>>] = mtime[<<e, id>>]
    BY <1>3, <1>6
  <2>2. \A e \in Dirs : Exists(e, id)' = Exists(e, id) /\ Version(e, id)' = Version(e, id)
    BY <2>1 DEF Exists, Version
  <2>3. Checked(t, id)' = Checked(t, id)
    BY <1>5, <2>1, <2>2 DEF Checked
  <2>4. ModelServes(t, id)' = ModelServes(t, id)
    BY <1>5, <2>2 DEF ModelServes
  <2>5. Loaded(t, id)' = Loaded(t, id)
    <3>1. Exists(model, id)' = Exists(model, id) /\ Version(model, id)' = Version(model, id)
      BY <1>2, <1>5, <2>1 DEF Exists, Version
    <3> QED
      BY <1>5, <2>2, <3>1 DEF Loaded
  <2> QED
    BY <2>3, <2>4, <2>5
<1>7. CASE i = id /\ d = t
  <2>1. Exists(t, id)' /\ Checked(t, id)' = now
    BY <1>4, <1>7 DEF Exists, Checked
  <2> QED
    BY <1>1, <1>2, <1>4, <1>7, <2>1 DEF Older
<1>8. CASE i = id /\ d # t /\ Exists(t, id)
  <2>1. Exists(t, id)' /\ mtime'[<<t, id>>] = mtime[<<t, id>>]
    BY <1>3, <1>5, <1>8 DEF Exists
  <2> QED
    BY <1>8, <2>1 DEF Checked, ModelServes, Loaded, Version
<1>9. CASE i = id /\ d # t /\ ~Exists(t, id)
  <2>1. ~Exists(t, id)'
    BY <1>3, <1>5, <1>9 DEF Exists
  <2>2. CASE d \in Models
    <3>1. Exists(d, id)'
      BY <1>4, <1>9 DEF Exists
    <3> QED
      BY <1>1, <1>9, <2>1, <2>2, <3>1 DEF ModelServes
  <2>3. CASE d = Default
    <3>1. Checked(t, id)' = now
      BY <1>4, <1>9, <2>1, <2>3 DEF Checked
    <3> QED
      BY <1>1, <1>2, <1>4, <1>9, <3>1 DEF Older
  <2>4. CASE d \notin Models \cup {Default}
    <3>1. \A e \in Models \cup {Default} : mtime'[<<e, id>>] = mtime[<<e, id>>]
      BY <1>3, <1>5, <2>4
    <3>2. Checked(t, id)' = Checked(t, id)
      BY <1>9, <2>1, <3>1 DEF Checked
    <3>3. ModelServes(t, id)' = ModelServes(t, id)
      BY <1>9, <2>1, <3>1 DEF ModelServes, Exists
    <3>4. Loaded(t, id)' = Loaded(t, id)
      <4>1. model \in Models /\ model' = model
        BY <1>2 DEF TypeOK
      <4> QED
        BY <1>9, <2>1, <3>1, <4>1 DEF Loaded, Exists, Version
    <3> QED
      BY <3>2, <3>3, <3>4
  <2> QED
    BY <2>2, <2>3, <2>4
<1> QED
  BY <1>6, <1>7, <1>8, <1>9

----------------------------------------------------------------------------
(* Every step keeps the invariant. *)

LEMMA InitIInv == ASSUME DownloadAssumption, Init PROVE IInv
<1>1. TypeOK
  <2>1. MaxTime \in Nat /\ now \in 1..MaxTime /\ 0 \in 0..MaxTime /\ 0 <= now
    BY DEF Init, DownloadAssumption
  <2>2. /\ mtime \in [Dirs \X Tables -> 0..MaxTime] /\ \A f \in Dirs \X Tables : mtime[f] <= now
        /\ log \in [Terminals -> 0..MaxTime] /\ \A t \in Terminals : log[t] <= now
    BY <2>1 DEF Init
  <2>3. has \in [Terminals -> [Tables -> Contents]] /\ doubtful \in [Terminals -> SUBSET Tables]
    BY DEF Init, Contents
  <2> QED
    BY <2>1, <2>2, <2>3 DEF Init, TypeOK, DownloadAssumption
<1>2. LogProves
  BY <1>1, TimesAreNumbers DEF Init, LogProves, Skippable, Older, Checked, Exists, Dirs
<1>3. DoneIsAtTerminal
  BY DEF Init, DoneIsAtTerminal
<1> QED
  BY <1>1, <1>2, <1>3 DEF IInv

\* Steps that leave files, logs and terminals alone, and put more in doubt.
LEMMA LogKept ==
    ASSUME IInv, TypeOK', UNCHANGED <<mtime, log, has, lost>>,
           \A t \in Terminals : doubtful[t] \subseteq doubtful'[t]
    PROVE  LogProves'
<1> SUFFICES ASSUME NEW t \in Terminals, NEW id \in Tables,
                    Skippable(t, id)', ~ModelServes(t, id)', id \notin doubtful'[t]
             PROVE  has'[t][id] = Loaded(t, id)'
  BY DEF LogProves
<1>1. Skippable(t, id) /\ ~ModelServes(t, id) /\ id \notin doubtful[t]
  BY SameFiles DEF Skippable, Older
<1> QED
  BY <1>1, SameFiles DEF IInv, LogProves

\* Outside a download, and for one that goes on as it was.
LEMMA QuietStep ==
    ASSUME IInv, TypeOK', UNCHANGED <<mtime, log, has, lost, doubtful>>,
           pc' = "idle" \/ UNCHANGED <<model, download>>
    PROVE  IInv'
<1>1. LogProves'
  BY LogKept
<1>2. DoneIsAtTerminal'
  <2>1. CASE pc' = "idle"
    BY <2>1 DEF DoneIsAtTerminal
  <2>2. CASE pc' = "download" /\ UNCHANGED <<model, download>>
    BY <2>2, SameFiles DEF IInv, DoneIsAtTerminal, TypeOK, download
  <2> QED
    BY <2>1, <2>2 DEF TypeOK
<1> QED
  BY <1>1, <1>2 DEF IInv

LEMMA EnvironmentStep ==
    ASSUME DownloadAssumption, IInv,
           Tick \/ Interrupt \/ Restart \/ \E t \in Terminals : SoftwareVersion(t)
    PROVE  IInv'
<1>0. TypeOK
  BY DEF IInv
<1>1. CASE Tick
  <2>1. TypeOK'
    BY <1>0, <1>1, TimesAreNumbers DEF Tick, TypeOK, manager, download
  <2> QED
    BY <1>1, <2>1, QuietStep DEF Tick, manager
<1>2. CASE Interrupt
  <2>1. TypeOK'
    BY <1>0, <1>2 DEF Interrupt, TypeOK, files, download
  <2> QED
    BY <1>2, <2>1, QuietStep DEF Interrupt, files
<1>3. CASE Restart
  <2>1. TypeOK'
    BY <1>0, <1>3 DEF Restart, TypeOK, files, download, DownloadAssumption
  <2> QED
    BY <1>3, <2>1, QuietStep DEF Restart, files, download
<1>4. ASSUME NEW t \in Terminals, SoftwareVersion(t) PROVE IInv'
  <2>1. TypeOK'
    BY <1>0, <1>4 DEF SoftwareVersion, TypeOK, files, download, DownloadAssumption
  <2> QED
    BY <1>4, <2>1, QuietStep DEF SoftwareVersion, files, download
<1> QED
  BY <1>1, <1>2, <1>3, <1>4

LEMMA LoseMemoryStep ==
    ASSUME DownloadAssumption, IInv, NEW t \in Terminals, LoseMemory(t)
    PROVE  IInv'
<1>0. /\ TypeOK
      /\ has' = [has EXCEPT ![t] = [id \in Tables |-> None]] /\ lost' = lost \cup {t}
      /\ UNCHANGED <<files, log, manager, download, doubtful>>
      /\ pc = "download" => t # caller
  BY DEF IInv, LoseMemory
<1>1. TypeOK'
  BY <1>0 DEF TypeOK, Contents, files, manager, download
<1>2. \A u \in Terminals : u # t => has'[u] = has[u]
  BY <1>0 DEF TypeOK
<1>3. LogProves'
  <2> SUFFICES ASSUME NEW u \in Terminals, NEW id \in Tables,
                      Skippable(u, id)', ~ModelServes(u, id)', id \notin doubtful'[u]
               PROVE  has'[u][id] = Loaded(u, id)'
    BY DEF LogProves
  <2>1. u # t /\ Skippable(u, id) /\ ~ModelServes(u, id) /\ id \notin doubtful[u]
    BY <1>0, SameFiles DEF Skippable, Older, files
  <2> QED
    BY <1>0, <1>2, <2>1, SameFiles DEF IInv, LogProves, files, manager
<1>4. DoneIsAtTerminal'
  <2> SUFFICES ASSUME pc = "download" PROVE DoneIsAtTerminal'
    BY <1>0 DEF DoneIsAtTerminal, download
  <2>1. caller \in Terminals /\ caller # t /\ has'[caller] = has[caller]
    BY <1>0, <1>2 DEF TypeOK
  <2> QED
    BY <1>0, <2>1, SameFiles DEF IInv, DoneIsAtTerminal, files, manager, download
<1> QED
  BY <1>1, <1>3, <1>4 DEF IInv

LEMMA WriteStep ==
    ASSUME DownloadAssumption, IInv, NEW f \in Files, Write(f)
    PROVE  IInv'
<1>0. /\ TypeOK
      /\ mtime' = [mtime EXCEPT ![f] = now]
      /\ UNCHANGED <<now, log, manager, download, has, lost>>
      /\ f \in Dirs \X Tables
  BY DEF IInv, Write, DownloadAssumption
<1>1. /\ doubtful' \in [Terminals -> SUBSET Tables]
      /\ \A t \in Terminals : doubtful[t] \subseteq doubtful'[t]
      /\ pc = "download" => doubtful'[caller] = doubtful[caller] \cup {f[2]}
  BY <1>0 DEF Write, TypeOK
<1>2. TypeOK'
  BY <1>0, <1>1, TimesAreNumbers DEF TypeOK, manager, download
<1>3. LogProves'
  <2> SUFFICES ASSUME NEW t \in Terminals, NEW id \in Tables,
                      Skippable(t, id)', ~ModelServes(t, id)', id \notin doubtful'[t]
               PROVE  has'[t][id] = Loaded(t, id)'
    BY DEF LogProves
  <2>1. /\ Checked(t, id)' = Checked(t, id)
        /\ ModelServes(t, id)' = ModelServes(t, id)
        /\ Loaded(t, id)' = Loaded(t, id)
    BY <1>0, <1>2, OtherFiles DEF Skippable
  <2>2. Skippable(t, id) /\ ~ModelServes(t, id) /\ id \notin doubtful[t]
    BY <1>0, <1>1, <2>1 DEF Skippable, Older
  <2> QED
    BY <1>0, <2>1, <2>2 DEF IInv, LogProves
<1>4. DoneIsAtTerminal'
  <2> SUFFICES ASSUME pc = "download" PROVE DoneIsAtTerminal'
    BY <1>0 DEF DoneIsAtTerminal, download
  <2>1. caller \in Terminals /\ (forced => caller \notin lost)
    BY <1>0 DEF TypeOK, IInv, DoneIsAtTerminal
  <2>2. ASSUME NEW id \in Tables, id \notin left, ~ModelServes(caller, id)',
               id \notin doubtful'[caller]
        PROVE  has[caller][id] = Loaded(caller, id)'
    <3>1. f[2] # id /\ id \notin doubtful[caller]
      BY <1>1, <2>1, <2>2
    <3>2. /\ ModelServes(caller, id)' = ModelServes(caller, id)
          /\ Loaded(caller, id)' = Loaded(caller, id)
      <4>1. \A t \in Terminals : /\ ModelServes(t, id)' = ModelServes(t, id)
                                 /\ Loaded(t, id)' = Loaded(t, id)
        BY <1>0, <1>2, <3>1, OtherFiles
      <4>2. caller' = caller
        BY <1>0 DEF download
      <4> QED
        BY <2>1, <4>1, <4>2 DEF ModelServes, Loaded, Exists, Version
    <3> QED
      BY <2>2, <3>1, <3>2 DEF IInv, DoneIsAtTerminal
  <2> QED
    BY <1>0, <2>1, <2>2 DEF DoneIsAtTerminal, download
<1> QED
  BY <1>2, <1>3, <1>4 DEF IInv

LEMMA RequestStep ==
    ASSUME DownloadAssumption, IInv, NEW t \in Terminals, NEW force \in BOOLEAN, Request(t, force)
    PROVE  IInv'
<1>0. /\ TypeOK
      /\ pc' = "download" /\ caller' = t /\ forced' = Skipping(t, force)
      /\ left' = TableList[model] \cup {EndData}
      /\ doubtful' = [doubtful EXCEPT ![t] = @ \cup (Tables \ TableList[model])]
      /\ UNCHANGED <<now, mtime, log, running, model, has, lost>>
  BY DEF IInv, Request, files, manager
<1>1. /\ doubtful' \in [Terminals -> SUBSET Tables]
      /\ \A u \in Terminals : doubtful[u] \subseteq doubtful'[u]
      /\ doubtful'[t] = doubtful[t] \cup (Tables \ TableList[model])
  BY <1>0 DEF TypeOK
<1>2. TypeOK'
  <2>1. left' \subseteq Tables \cup {EndData} /\ forced' \in BOOLEAN /\ connected' \in BOOLEAN
    BY <1>0 DEF TypeOK, DownloadAssumption, Skipping, Request
  <2> QED
    BY <1>0, <1>1, <2>1 DEF TypeOK
<1>3. LogProves'
  BY <1>0, <1>1, <1>2, LogKept
<1>4. DoneIsAtTerminal'
  BY <1>0, <1>1 DEF DoneIsAtTerminal, Skipping
<1> QED
  BY <1>2, <1>3, <1>4 DEF IInv

\* What a turn of the loop has in common.
LEMMA TakesStep ==
    ASSUME IInv, NEW id \in Tables, Takes(id)
    PROVE  /\ pc = "download" /\ caller \in Terminals /\ left' = left \ {id}
           /\ UNCHANGED <<now, mtime, log, running, model, pc, caller, forced, lost>>
           /\ forced => caller \notin lost
           /\ TypeOK
  BY DEF Takes, Going, files, manager, IInv, TypeOK, DoneIsAtTerminal

\* A table that is not sent, and now in doubt if it was not proved.
LEMMA SkipStep ==
    ASSUME IInv, NEW id \in Tables, Takes(id), UNCHANGED has, connected' \in BOOLEAN,
           doubtful' \in [Terminals -> SUBSET Tables],
           \A t \in Terminals : doubtful[t] \subseteq doubtful'[t],
           \/ id \in doubtful'[caller]
           \/ ModelServes(caller, id)
           \/ has[caller][id] = Loaded(caller, id)
    PROVE  IInv'
<1>0. /\ pc = "download" /\ caller \in Terminals /\ left' = left \ {id}
      /\ UNCHANGED <<now, mtime, log, running, model, pc, caller, forced, lost>>
      /\ forced => caller \notin lost
      /\ TypeOK
  BY TakesStep
<1>1. TypeOK'
  BY <1>0 DEF TypeOK
<1>2. LogProves'
  BY <1>0, <1>1, LogKept
<1>3. DoneIsAtTerminal'
  <2> SUFFICES ASSUME NEW i \in Tables, i \notin left', ~ModelServes(caller, i),
                      i \notin doubtful'[caller]
               PROVE  has[caller][i] = Loaded(caller, i)
    BY <1>0, SameFiles DEF DoneIsAtTerminal, ModelServes, Loaded, Exists, Version
  <2>1. CASE i = id
    BY <2>1
  <2>2. CASE i # id
    BY <1>0, <2>2 DEF IInv, DoneIsAtTerminal
  <2> QED
    BY <2>1, <2>2
<1> QED
  BY <1>1, <1>2, <1>3 DEF IInv

LEMMA SkipUnsuitedStep ==
    ASSUME IInv, NEW id \in Tables, SkipUnsuited(id) PROVE IInv'
<1>1. /\ Takes(id) /\ doubtful' = [doubtful EXCEPT ![caller] = @ \cup {id}]
      /\ UNCHANGED <<connected, has>>
  BY DEF SkipUnsuited
<1>2. caller \in Terminals /\ doubtful \in [Terminals -> SUBSET Tables] /\ connected \in BOOLEAN
  BY <1>1, TakesStep DEF TypeOK
<1>3. /\ doubtful' \in [Terminals -> SUBSET Tables] /\ id \in doubtful'[caller]
      /\ \A t \in Terminals : doubtful[t] \subseteq doubtful'[t]
  BY <1>1, <1>2
<1> QED
  BY <1>1, <1>2, <1>3, SkipStep

\* Here the log is trusted.
LEMMA SkipOlderStep ==
    ASSUME IInv, NEW id \in Tables, SkipOlder(id) PROVE IInv'
<1>1. /\ Takes(id) /\ forced /\ Older(caller, id)
      /\ UNCHANGED <<connected, has, doubtful>>
  BY DEF SkipOlder
<1>2. /\ caller \in Terminals /\ doubtful \in [Terminals -> SUBSET Tables]
      /\ connected \in BOOLEAN /\ caller \notin lost
  BY <1>1, TakesStep DEF TypeOK
<1>3. \/ id \in doubtful[caller] \/ ModelServes(caller, id)
      \/ has[caller][id] = Loaded(caller, id)
  BY <1>1, <1>2 DEF IInv, LogProves, Skippable
<1> QED
  BY <1>1, <1>2, <1>3, SkipStep

\* A table that is sent, and has arrived or is in doubt.
LEMMA SentStep ==
    ASSUME DownloadAssumption, IInv, NEW id \in Tables, Takes(id), connected' \in BOOLEAN,
           has' = [has EXCEPT ![caller][id] = Loaded(caller, id)],
           doubtful' \in [Terminals -> SUBSET Tables],
           \A t \in Terminals : doubtful[t] \ {id} \subseteq doubtful'[t],
           \A t \in Terminals : t # caller => doubtful'[t] = doubtful[t]
    PROVE  IInv'
<1>0. /\ pc = "download" /\ caller \in Terminals /\ left' = left \ {id}
      /\ UNCHANGED <<now, mtime, log, running, model, pc, caller, forced, lost>>
      /\ forced => caller \notin lost
      /\ TypeOK
  BY TakesStep
<1>1. Loaded(caller, id) \in Contents
  BY <1>0, LoadedType
<1>2. /\ has' \in [Terminals -> [Tables -> Contents]]
      /\ has'[caller][id] = Loaded(caller, id)
      /\ \A t \in Terminals, i \in Tables : t # caller \/ i # id => has'[t][i] = has[t][i]
  BY <1>0, <1>1 DEF TypeOK
<1>3. TypeOK'
  BY <1>0, <1>2 DEF TypeOK
<1>4. LogProves'
  <2> SUFFICES ASSUME NEW t \in Terminals, NEW i \in Tables,
                      Skippable(t, i)', ~ModelServes(t, i)', i \notin doubtful'[t]
               PROVE  has'[t][i] = Loaded(t, i)'
    BY DEF LogProves
  <2>1. Loaded(t, i)' = Loaded(t, i) /\ Skippable(t, i) /\ ~ModelServes(t, i)
    BY <1>0, SameFiles DEF Skippable, Older
  <2>2. CASE t = caller /\ i = id
    BY <1>2, <2>1, <2>2
  <2>3. CASE t # caller \/ i # id
    <3>1. i \notin doubtful[t]
      BY <2>3
    <3> QED
      BY <1>2, <2>1, <2>3, <3>1 DEF IInv, LogProves
  <2> QED
    BY <2>2, <2>3
<1>5. DoneIsAtTerminal'
  <2>1. ASSUME NEW i \in Tables, i \notin left', ~ModelServes(caller, i),
               i \notin doubtful'[caller]
        PROVE  has'[caller][i] = Loaded(caller, i)
    <3>1. CASE i = id
      BY <1>2, <3>1
    <3>2. CASE i # id
      <4>1. i \notin doubtful[caller] /\ i \notin left
        BY <1>0, <2>1, <3>2
      <4> QED
        BY <1>0, <1>2, <2>1, <3>2, <4>1 DEF IInv, DoneIsAtTerminal
    <3> QED
      BY <3>1, <3>2
  <2>2. \A i \in Tables : /\ ModelServes(caller, i)' = ModelServes(caller, i)
                          /\ Loaded(caller, i)' = Loaded(caller, i)
    BY <1>0 DEF ModelServes, Loaded, Exists, Version
  <2> QED
    BY <1>0, <2>1, <2>2 DEF DoneIsAtTerminal
<1> QED
  BY <1>3, <1>4, <1>5 DEF IInv

LEMMA DeliverStep ==
    ASSUME DownloadAssumption, IInv, NEW id \in Tables, Deliver(id) PROVE IInv'
<1>1. /\ Takes(id) /\ connected' \in BOOLEAN
      /\ has' = [has EXCEPT ![caller][id] = Loaded(caller, id)]
      /\ doubtful' = [doubtful EXCEPT ![caller] = @ \ {id}]
  BY DEF Deliver, Sends
<1>2. caller \in Terminals /\ doubtful \in [Terminals -> SUBSET Tables]
  BY <1>1, TakesStep DEF TypeOK
<1>3. /\ doubtful' \in [Terminals -> SUBSET Tables]
      /\ \A t \in Terminals : doubtful[t] \ {id} \subseteq doubtful'[t]
      /\ \A t \in Terminals : t # caller => doubtful'[t] = doubtful[t]
  BY <1>1, <1>2
<1> QED
  BY <1>1, <1>3, SentStep

LEMMA FailStep ==
    ASSUME DownloadAssumption, IInv, NEW id \in Tables, Fail(id) PROVE IInv'
<1>1. Takes(id) /\ doubtful' = [doubtful EXCEPT ![caller] = @ \cup {id}]
  BY DEF Fail, Sends
<1>2. /\ caller \in Terminals /\ doubtful \in [Terminals -> SUBSET Tables]
      /\ connected \in BOOLEAN
  BY <1>1, TakesStep DEF TypeOK
<1>3. /\ doubtful' \in [Terminals -> SUBSET Tables] /\ id \in doubtful'[caller]
      /\ \A t \in Terminals : doubtful[t] \subseteq doubtful'[t]
      /\ \A t \in Terminals : t # caller => doubtful'[t] = doubtful[t]
  BY <1>1, <1>2
<1>4. connected' \in BOOLEAN
  BY <1>2 DEF Fail
<1>5. CASE has' = has
  BY <1>1, <1>3, <1>4, <1>5, SkipStep
<1>6. CASE has' = [has EXCEPT ![caller][id] = Loaded(caller, id)]
  BY <1>1, <1>3, <1>4, <1>6, SentStep
<1> QED
  BY <1>5, <1>6 DEF Fail

LEMMA SendEndDataStep ==
    ASSUME DownloadAssumption, IInv, SendEndData PROVE IInv'
<1>0. /\ TypeOK /\ pc = "download" /\ caller \in Terminals /\ left = {EndData} /\ left' = {}
      /\ connected' \in BOOLEAN /\ (lost' = lost \/ lost' = lost \ {caller})
      /\ UNCHANGED <<now, mtime, log, running, model, pc, caller, forced, has, doubtful>>
      /\ EndData \notin Tables
  BY DEF IInv, SendEndData, Going, TypeOK, files, manager, DownloadAssumption
<1>1. TypeOK'
  BY <1>0 DEF TypeOK
<1>2. \A id \in Tables : ~ModelServes(caller, id) /\ id \notin doubtful[caller]
                           => has[caller][id] = Loaded(caller, id)
  BY <1>0 DEF IInv, DoneIsAtTerminal
<1>3. LogProves'
  <2> SUFFICES ASSUME NEW t \in Terminals, NEW id \in Tables,
                      Skippable(t, id)', ~ModelServes(t, id)', id \notin doubtful'[t]
               PROVE  has'[t][id] = Loaded(t, id)'
    BY DEF LogProves
  <2>1. Loaded(t, id)' = Loaded(t, id) /\ Older(t, id) /\ ~ModelServes(t, id) /\ id \notin doubtful[t]
    BY <1>0, SameFiles DEF Skippable, Older
  <2>2. CASE t = caller
    BY <1>0, <1>2, <2>1, <2>2
  <2>3. CASE t # caller
    <3>1. Skippable(t, id)
      BY <1>0, <2>1, <2>3 DEF Skippable
    <3> QED
      BY <1>0, <2>1, <3>1 DEF IInv, LogProves
  <2> QED
    BY <2>2, <2>3
<1>4. DoneIsAtTerminal'
  <2>1. forced' => caller' \notin lost'
    BY <1>0 DEF IInv, DoneIsAtTerminal
  <2> QED
    BY <1>0, <1>2, <2>1 DEF DoneIsAtTerminal, ModelServes, Loaded, Exists, Version
<1> QED
  BY <1>1, <1>3, <1>4 DEF IInv

\* The log is written: of every table that is not in doubt, the terminal has what is served.
LEMMA EndDownloadStep ==
    ASSUME DownloadAssumption, IInv, EndDownload PROVE IInv'
<1>0. /\ TypeOK /\ pc = "download" /\ caller \in Terminals
      /\ pc' = "idle" /\ caller' = None /\ forced' = FALSE /\ connected' = FALSE /\ left' = {}
      /\ UNCHANGED <<now, mtime, running, model, has, lost>> /\ LogDownload
      /\ EndData \notin Tables
  BY DEF IInv, EndDownload, TypeOK, files, manager, DownloadAssumption
<1>1. DoneIsAtTerminal'
  BY <1>0 DEF DoneIsAtTerminal
<1>2. CASE ~connected
  <2>1. UNCHANGED <<log, doubtful>>
    BY <1>0, <1>2 DEF LogDownload
  <2>2. TypeOK'
    BY <1>0, <2>1 DEF TypeOK
  <2> QED
    BY <1>0, <1>1, <2>1, <2>2, LogKept DEF IInv
<1>3. CASE connected
  <2>1. /\ log' = [log EXCEPT ![caller] = now]
        /\ doubtful' = [doubtful EXCEPT ![caller] = @ \cup (left \ {EndData})]
    BY <1>0, <1>3 DEF LogDownload
  <2>2. /\ doubtful' \in [Terminals -> SUBSET Tables]
        /\ doubtful'[caller] = doubtful[caller] \cup (left \ {EndData})
        /\ \A t \in Terminals : t # caller => doubtful'[t] = doubtful[t] /\ log'[t] = log[t]
    BY <1>0, <2>1 DEF TypeOK
  <2>3. log' \in [Terminals -> 0..MaxTime] /\ \A t \in Terminals : log'[t] <= now
    BY <1>0, <2>1, TimesAreNumbers DEF TypeOK
  <2>4. TypeOK'
    BY <1>0, <2>2, <2>3 DEF TypeOK
  <2>5. LogProves'
    <3> SUFFICES ASSUME NEW t \in Terminals, NEW id \in Tables,
                        Skippable(t, id)', ~ModelServes(t, id)', id \notin doubtful'[t]
                 PROVE  has'[t][id] = Loaded(t, id)'
      BY DEF LogProves
    <3>1. Loaded(t, id)' = Loaded(t, id) /\ ~ModelServes(t, id) /\ Checked(t, id)' = Checked(t, id)
      BY <1>0, SameFiles
    <3>2. CASE t = caller
      <4>1. id \notin left /\ id \notin doubtful[caller]
        BY <1>0, <2>2, <3>2
      <4> QED
        BY <1>0, <3>1, <3>2, <4>1 DEF IInv, DoneIsAtTerminal
    <3>3. CASE t # caller
      <4>1. Skippable(t, id) /\ id \notin doubtful[t]
        BY <1>0, <2>2, <3>1, <3>3 DEF Skippable, Older
      <4> QED
        BY <1>0, <3>1, <4>1 DEF IInv, LogProves
    <3> QED
      BY <3>2, <3>3
  <2> QED
    BY <1>1, <2>4, <2>5 DEF IInv
<1> QED
  BY <1>0, <1>2, <1>3 DEF TypeOK

LEMMA Stutter == ASSUME IInv, UNCHANGED vars PROVE IInv'
<1>1. TypeOK'
  BY DEF IInv, TypeOK, vars, files, manager, download
<1> QED
  BY <1>1, QuietStep DEF vars, files, manager, download

LEMMA NextIInv == ASSUME DownloadAssumption, IInv, [Next]_vars PROVE IInv'
<1>1. CASE Tick \/ Interrupt \/ Restart \/ \E t \in Terminals : SoftwareVersion(t)
  BY <1>1, EnvironmentStep
<1>2. ASSUME NEW f \in Files, Write(f) PROVE IInv'
  BY <1>2, WriteStep
<1>3. ASSUME NEW t \in Terminals, LoseMemory(t) PROVE IInv'
  BY <1>3, LoseMemoryStep
<1>4. ASSUME NEW t \in Terminals, NEW force \in BOOLEAN, Request(t, force) PROVE IInv'
  BY <1>4, RequestStep
<1>5. ASSUME NEW id \in Tables, Table(id) PROVE IInv'
  BY <1>5, SkipUnsuitedStep, SkipOlderStep, DeliverStep, FailStep DEF Table
<1>6. CASE SendEndData
  BY <1>6, SendEndDataStep
<1>7. CASE EndDownload
  BY <1>7, EndDownloadStep
<1>8. CASE UNCHANGED vars
  BY <1>8, Stutter
<1> QED
  BY <1>1, <1>2, <1>3, <1>4, <1>5, <1>6, <1>7, <1>8 DEF Next

----------------------------------------------------------------------------
(* The theorems. *)

\* The inductive invariant holds in every state of the download, the files and the logs.
THEOREM InductiveInvariant == Spec => []IInv
<1>1. Init => IInv
  BY InitIInv, DownloadAssumption
<1>2. IInv /\ [Next]_vars => IInv'
  BY NextIInv, DownloadAssumption
<1> QED
  BY <1>1, <1>2, PTL DEF Spec

\* Type correctness: no log and no file is younger than the clock, and outside
\* mm_download_tables no table is left to download.
THEOREM TypeCorrect == Spec => []TypeOK
<1>1. IInv => TypeOK
  BY DEF IInv
<1> QED
  BY <1>1, InductiveInvariant, PTL

\* The staleness test is sound but for its two exceptions: a table that check_mm_table_is_newer
\* finds older than the log is at the terminal as load_mm_table would load it.
THEOREM SkippingIsSound == Spec => []LogProves
<1>1. IInv => LogProves
  BY DEF IInv
<1> QED
  BY <1>1, InductiveInvariant, PTL

=============================================================================
