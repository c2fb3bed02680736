----------------------------- MODULE MMDownload -----------------------------
(***************************************************************************)
(* What mm_download_tables sends, and what it skips: the table files in    *)
(* their three directories, the download log of each terminal, the forced  *)
(* download that skips tables older than the log, and an operator who      *)
(* writes files at any moment.  Files and logs outlive the program;        *)
(* terminal_type does not, nor does it change when another terminal calls. *)
(*                                                                         *)
(* A turn of the loop is one step: the file is in memory before it is      *)
(* sent.  Times are ticks of the clock of the file system.  Left out are   *)
(* the tables that the manager generates itself, which are always sent,    *)
(* and the order of the list, except that DLOG_MT_END_DATA is its last.    *)
(***************************************************************************)
EXTENDS Naturals

CONSTANTS
    Terminals,
    Models,             \* TERM_CARD, TERM_MULTIPAY ...: each has a directory
    Default,            \* the directory that serves them all
    Tables,             \* tables that are kept in files
    EndData,            \* DLOG_MT_END_DATA
    None,
    ModelOf,            \* the model of each terminal
    NoModel,            \* the model before any terminal has sent its software version
    TableList,          \* the tables in the list of a model
    NotFor,             \* those skipped for the model, or because they are not mandatory
    Complete,           \* the -c option: every download is complete
    Files,              \* bound: the files the operator may write
    MaxTime             \* bound: ticks of the clock

Dirs == Terminals \cup Models \cup {Default}

ASSUME DownloadAssumption ==
    /\ None \notin Terminals \cup Dirs
    /\ EndData \notin Tables
    /\ NoModel \in Models
    /\ ModelOf \in [Terminals -> Models]
    /\ TableList \in [Models -> SUBSET Tables]
    /\ NotFor \in [Models -> SUBSET Tables]
    /\ Complete \in BOOLEAN
    /\ Files \subseteq Dirs \X Tables
    /\ MaxTime \in Nat \ {0}

VARIABLES
    now,                \* the clock of the file system
    mtime,              \* when a file was written; 0: it is not there
    log,                \* when table_update.log of a terminal was written; 0: never
    running, model,     \* manager_running, and term_type_to_model(terminal_type)
    pc, caller, forced, connected, left,    \* mm_download_tables
    has,                \* the file whose contents a terminal has for a table
    lost,               \* terminals that lost their memory, or power in a download
    doubtful            \* history: tables of which the log says too much

files == <<now, mtime>>
manager == <<running, model>>
download == <<pc, caller, forced, connected, left>>
vars == <<files, log, manager, download, has, lost, doubtful>>

Contents == (Dirs \X (1..MaxTime)) \cup {None}

TypeOK ==
    /\ now \in 1..MaxTime
    /\ mtime \in [Dirs \X Tables -> 0..MaxTime] /\ \A f \in Dirs \X Tables : mtime[f] <= now
    /\ log \in [Terminals -> 0..MaxTime] /\ \A t \in Terminals : log[t] <= now
    /\ running \in BOOLEAN /\ model \in Models
    /\ pc \in {"idle", "download"}
    /\ caller \in Terminals \cup {None} /\ (pc = "download" => caller \in Terminals)
    /\ forced \in BOOLEAN /\ connected \in BOOLEAN
    /\ left \subseteq Tables \cup {EndData} /\ (pc = "idle" => left = {})
    /\ has \in [Terminals -> [Tables -> Contents]]
    /\ lost \subseteq Terminals
    /\ doubtful \in [Terminals -> SUBSET Tables]

\* The program is installed with no table written and no terminal known.
Init ==
    /\ now = 1 /\ mtime = [f \in Dirs \X Tables |-> 0]
    /\ log = [t \in Terminals |-> 0]
    /\ running = TRUE /\ model = NoModel
    /\ pc = "idle" /\ caller = None /\ forced = FALSE /\ connected = FALSE /\ left = {}
    /\ has = [t \in Terminals |-> [id \in Tables |-> None]]
    /\ lost = {}
    /\ doubtful = [t \in Terminals |-> {}]

----------------------------------------------------------------------------
(* The files. *)

Exists(dir, id) == mtime[<<dir, id>>] > 0
Version(dir, id) == <<dir, mtime[<<dir, id>>]>>

\* load_mm_table: the terminal's own file, that of its model, the default.
Loaded(t, id) ==
    CASE Exists(t, id) -> Version(t, id)
      [] ~Exists(t, id) /\ Exists(model, id) -> Version(model, id)
      [] ~Exists(t, id) /\ ~Exists(model, id) /\ Exists(Default, id) -> Version(Default, id)
      [] OTHER -> None

\* check_mm_table_is_newer: the terminal's own file, or else the default.
Checked(t, id) == IF Exists(t, id) THEN mtime[<<t, id>>] ELSE mtime[<<Default, id>>]
Older_Inclusive(t, id) == Checked(t, id) <= log[t] /\ log[t] > 0
Older(t, id) == Checked(t, id) < log[t]

\* The own file, or the file of a model, or the default: which one load_mm_table reads does
\* not depend on the model.
ModelServes(t, id) == ~Exists(t, id) /\ \E m \in Models : Exists(m, id)

----------------------------------------------------------------------------
(* The operator, the terminals and the process. *)

Tick ==
    /\ now < MaxTime
    /\ now' = now + 1
    /\ UNCHANGED <<mtime, log, manager, download, has, lost, doubtful>>

\* A file is written at most once in a tick.
Write(f) ==
    /\ mtime[f] < now
    /\ mtime' = [mtime EXCEPT ![f] = now]
    /\ doubtful' = IF pc = "download" THEN [doubtful EXCEPT ![caller] = @ \cup {f[2]}]
                   ELSE doubtful
    /\ UNCHANGED <<now, log, manager, download, has, lost>>

LoseMemory(t) ==
    /\ pc = "download" => t # caller
    /\ has' = [has EXCEPT ![t] = [id \in Tables |-> None]]
    /\ lost' = lost \cup {t}
    /\ UNCHANGED <<files, log, manager, download, doubtful>>

\* SIGINT.
Interrupt ==
    /\ running
    /\ running' = FALSE
    /\ UNCHANGED <<files, log, model, download, has, lost, doubtful>>

Restart ==
    /\ pc = "idle" /\ ~running
    /\ running' = TRUE /\ model' = NoModel
    /\ UNCHANGED <<files, log, download, has, lost, doubtful>>

\* DLOG_MT_SW_VERSION: a terminal may send it in its call, or not.
SoftwareVersion(t) ==
    /\ pc = "idle" /\ running
    /\ model' = ModelOf[t]
    /\ UNCHANGED <<files, log, running, download, has, lost, doubtful>>

----------------------------------------------------------------------------
(* mm_download_tables *)

Skipping_Forced(t, force) == force /\ ~Complete

\* Craft force download, and neither memory nor power was lost, and not -c.
Skipping(t, force) == force /\ ~Complete /\ t \notin lost

\* DLOG_MT_ATN_REQ_TAB_UPD: a table that the list of the model has not got is not sent.
Request(t, force) ==
    /\ pc = "idle" /\ running
    /\ pc' = "download" /\ caller' = t /\ connected' = TRUE
    /\ forced' = Skipping(t, force)
    /\ left' = TableList[model] \cup {EndData}
    /\ doubtful' = [doubtful EXCEPT ![t] = @ \cup (Tables \ TableList[model])]
    /\ UNCHANGED <<files, log, manager, has, lost>>

Going == pc = "download" /\ running /\ connected

Takes(id) ==
    /\ Going /\ id \in left /\ id \in Tables
    /\ left' = left \ {id}
    /\ UNCHANGED <<files, log, manager, pc, caller, forced, lost>>

\* Not for this model, or not mandatory under -s.
SkipUnsuited(id) ==
    /\ Takes(id) /\ id \in NotFor[model]
    /\ doubtful' = [doubtful EXCEPT ![caller] = @ \cup {id}]
    /\ UNCHANGED <<connected, has>>

SkipOlder(id) ==
    /\ Takes(id) /\ id \notin NotFor[model]
    /\ forced /\ Older(caller, id)
    /\ UNCHANGED <<connected, has, doubtful>>

Sends(id) == Takes(id) /\ id \notin NotFor[model] /\ ~(forced /\ Older(caller, id))

\* Loaded, sent and acknowledged; the acknowledgement may hang up.
Deliver(id) ==
    /\ Sends(id) /\ Loaded(caller, id) # None
    /\ has' = [has EXCEPT ![caller][id] = Loaded(caller, id)]
    /\ connected' \in BOOLEAN
    /\ doubtful' = [doubtful EXCEPT ![caller] = @ \ {id}]

\* It cannot be loaded, or is not acknowledged, whether the terminal has got it or not.
Fail(id) ==
    /\ Sends(id)
    /\ \/ UNCHANGED <<connected, has>>
       \/ /\ Loaded(caller, id) # None
          /\ has' \in {has, [has EXCEPT ![caller][id] = Loaded(caller, id)]}
          /\ connected' \in BOOLEAN
    /\ doubtful' = [doubtful EXCEPT ![caller] = @ \cup {id}]

\* The terminal is in service again, if DLOG_MT_END_DATA reaches it.
SendEndData ==
    /\ Going /\ left = {EndData}
    /\ left' = {}
    /\ connected' \in BOOLEAN
    /\ lost' \in {lost, lost \ {caller}}
    /\ UNCHANGED <<files, log, manager, pc, caller, forced, has, doubtful>>

\* update_terminal_download_time: "download complete", when the call is up.
LogDownload ==
    IF connected
    THEN /\ log' = [log EXCEPT ![caller] = now]
         /\ doubtful' = [doubtful EXCEPT ![caller] = @ \cup (left \ {EndData})]
    ELSE UNCHANGED <<log, doubtful>>

EndDownload_StaysPending ==
    /\ pc = "download" /\ (left = {} \/ ~running \/ ~connected)
    /\ pc' = "idle" /\ caller' = None /\ forced' = FALSE /\ connected' = FALSE
    /\ LogDownload
    /\ UNCHANGED <<files, manager, left, has, lost>>

\* The list is done, SIGINT came, or the call dropped.
EndDownload ==
    /\ pc = "download" /\ (left = {} \/ ~running \/ ~connected)
    /\ pc' = "idle" /\ caller' = None /\ forced' = FALSE /\ connected' = FALSE
    /\ left' = {}
    /\ LogDownload
    /\ UNCHANGED <<files, manager, has, lost>>

----------------------------------------------------------------------------
Table(id) == SkipUnsuited(id) \/ SkipOlder(id) \/ Deliver(id) \/ Fail(id)

Next ==
    \/ Tick \/ (\E f \in Files : Write(f))
    \/ Interrupt \/ Restart
    \/ \E t \in Terminals :
          LoseMemory(t) \/ SoftwareVersion(t) \/ \E force \in BOOLEAN : Request(t, force)
    \/ (\E id \in Tables : Table(id)) \/ SendEndData \/ EndDownload

Spec == Init /\ [][Next]_vars

----------------------------------------------------------------------------
(* Properties *)

\* The terminals a forced download would skip a table for.
Skippable(t, id) == t \notin lost /\ Older(t, id)

\* A table is skipped only for a terminal that has what would have been sent, with these
\* exceptions: the file of a model serves the table, and after the log was written at the
\* end of a download in which the table was not sent for certain (mm_download_tables looks
\* at nothing but the connection), or was written meanwhile.
LogProves ==
    \A t \in Terminals, id \in Tables :
        Skippable(t, id) /\ ~ModelServes(t, id) /\ id \notin doubtful[t]
            => has[t][id] = Loaded(t, id)

\* "Terminal %s download complete." (update_terminal_download_time): the log, which a forced
\* download goes by, says that the terminal has every table its model is sent, as the files of
\* its model and the common ones now are; what has changed is newer than the log, and "only
\* the table that changed" (README.md) is downloaded again.
CompleteIsDelivered ==
    \A t \in Terminals : \A id \in TableList[ModelOf[t]] \ NotFor[ModelOf[t]] :
        Skippable(t, id) /\ model = ModelOf[t] => has[t][id] = Loaded(t, id)

=============================================================================
