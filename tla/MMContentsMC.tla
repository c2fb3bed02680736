------------------------------ MODULE MMContentsMC ------------------------------
(* Instances of MMContents for TLC: frames on a bad line, packets of every mix of tables,
   and downloads to every type of terminal with every kind of option. *)
EXTENDS MMContents
LOCAL INSTANCE SequencesExt

Now == [year |-> 124, month |-> 2, day |-> 28, hour |-> 12, min |-> 3, sec |-> 2, wday |-> 6,
        raw |-> <<2, 3, 13, 53, 0, 0, 0, 0>>]

Digits == <<4, 0, 1, 2, 8, 0, 9, 9, 1, 2, 3, 0, 6, 7, 0>>

\* A number of n digits, as it comes in a rate request.
Dialed(n) == Pack(SubSeq(Digits, 1, n) \o [i \in 1..20 - n |-> END_OF_NUMBER])

\* The terminal 408 535 0203, which has START and STOP bytes in its number.
Base == [id |-> <<64, 133, 53, 2, 3>>, packed |-> <<>>, arrived |-> TRUE, queue |-> <<>>, type |-> 11,
         rating |-> FALSE, minimal |-> FALSE, dir |-> "none", access |-> <<>>, key |-> <<>>,
         ncc |-> <<<<1, 8, 0, 0, 5, 5, 5, 1, 2, 3, 4>>>>, dialed |-> Dialed(10), now |-> Now]

\* A terminal keeps at most 50 records, of which the last three may come in one packet; a queue
\* that another terminal left behind may be full.
Queued(n) == FlattenSeq([i \in 1..n |-> <<CDR_DETAILS_ACK, i, 1>>])

T(id, fill) == [id |-> id, fill |-> fill]
P(tables) == [flags |-> 0, tables |-> tables]

---------------------------------------------------------------------------
(* Two short packets, the first of them disturbed. *)

FirstPackets == {[flags |-> f, tables |-> <<t>>] :
                   f \in {0, FLAG_RETRY, FLAG_DISCONNECT}, t \in {T(END_DATA, 0), T(ALARM, 3)}}
OnTheLine == {[Base EXCEPT !.arrived = FALSE, !.queue = Queued(1), !.packed = <<p, P(<<T(ALARM, 2)>>)>>] : p \in FirstPackets}

Noise(kind, n, byte) == [kind |-> kind, at |-> n, byte |-> byte]
MCNoises(frame) ==
    {None} \cup {Noise("lost", n, 0) : n \in 1..Len(frame)}
    \cup {Noise(kind, n, byte) : kind \in {"changed", "added"}, n \in 1..Len(frame),
                                 byte \in {0, START_BYTE, STOP_BYTE, 5, 11, 255}}

---------------------------------------------------------------------------
(* Packets of two and three tables, whose contents look like other tables. *)

SERIAL_NUM == 84
Fills == {ALARM, END_DATA, CALL_DETAILS, SERIAL_NUM}

Pairs == {<<T(a, f), T(b, CALL_DETAILS)>> : a \in Understood \cup {SERIAL_NUM}, f \in Fills,
                                 b \in Understood \cup {SERIAL_NUM}}
Mixed == {CALL_DETAILS, ALARM, MAINT_REQ, END_DATA, ATN_REQ_CDR_UPL, ATN_REQ_TAB_UPD, RATE_REQUEST,
          TIME_SYNC_REQ}
Triples == {<<T(a, 128), T(b, 128), T(c, 128)>> : a \in Mixed, b \in Mixed, c \in Mixed}
WithTables == {[Base EXCEPT !.packed = <<P(tables)>>, !.rating = TRUE] : tables \in Pairs}
              \cup {[Base EXCEPT !.packed = <<P(tables)>>, !.queue = q] :
                      tables \in Triples, q \in {<<>>, Queued(47), Queued(81)}}
\* Numbers of all lengths are dialed, ten digits among them.
WithNumbers == {[Base EXCEPT !.packed = <<P(<<T(RATE_REQUEST, 0)>>)>>, !.rating = r, !.dialed = Dialed(n)] :
                  r \in BOOLEAN, n \in 1..15}
SizesFit(s) == FoldLeft(LAMBDA sum, t : sum + SizeOnLine(t.id), 0, s.packed[1].tables) <= PKT_TABLE_DATA_LEN_MAX

---------------------------------------------------------------------------
(* Downloads. *)

Downloading(s) == [s EXCEPT !.packed = <<P(<<T(SW_VERSION, 1), T(ATN_REQ_TAB_UPD, 2)>>)>>]

\* A few files for every type; no file and all of them for a type of each version.
ToEveryType ==
    {Downloading([Base EXCEPT !.type = type, !.minimal = m, !.dir = "few"]) :
       type \in 0..TERM_TYPE_MAX + 1, m \in BOOLEAN}
    \cup {Downloading([Base EXCEPT !.type = type, !.minimal = m, !.dir = d]) :
            type \in {1, 10, 9, 27, 32, 58}, m \in BOOLEAN, d \in {"none", "full"}}

WithOptions ==
    {Downloading([Base EXCEPT !.type = type, !.minimal = TRUE, !.ncc = ncc,
                              !.access = SubSeq(Digits, a, a + 6), !.key = SubSeq(Digits, a, a + 9)]) :
       type \in {1, 10, 11, 58}, a \in {1, 2},
       ncc \in {<<SubSeq(Digits, 1, n)>> : n \in 1..15} \cup {<<>>, <<<<0>>, Digits>>}}
AtAllTimes ==
    {Downloading([Base EXCEPT !.now.hour = h, !.now.month = d[1], !.now.day = d[2]]) :
       h \in 0..23, d \in {<<2, 28>>, <<2, 29>>, <<12, 31>>}}

MCSetups == OnTheLine \cup {s \in WithTables : SizesFit(s)} \cup WithNumbers \cup ToEveryType \cup WithOptions \cup AtAllTimes

Listed == UNION {{table_list(v)[i] : i \in 1..Len(table_list(v))} :
                   v \in {MTR_2_X, MTR_1_20, MTR_1_9, MTR_1_7_INTL, MTR_1_7}}
FileSize(id) ==
    CASE id = CALL_SCREEN_LIST -> 3060
      [] id = FCONFIG_OPTS -> 71
      [] OTHER -> <<1, 243, 244, 245, 489, 490>>[(id % 6) + 1]
MCFileSizes ==
    [dir \in {"none", "few", "full"} |->
       [id \in CASE dir = "none" -> {} [] dir = "few" -> {FCONFIG_OPTS, RATE_TABLE, CALL_SCREEN_LIST}
                 [] dir = "full" -> Listed \ {END_DATA} |-> FileSize(id)]]
================================================================================
