-------------------------------- MODULE MMTables --------------------------------
(***************************************************************************)
(* The tables that the terminal and the manager exchange: their numbers    *)
(* and layouts, the lists of tables of mm_download_tables, what it leaves  *)
(* out of them, and the contents of the tables that the manager generates  *)
(* itself.  Nothing here has a state: MMContents sends and receives them.  *)
(***************************************************************************)
EXTENDS MMCodec
LOCAL INSTANCE FiniteSetsExt
LOCAL INSTANCE SequencesExt

---------------------------------------------------------------------------
(* The numbers of the tables: DLOG_MT_FUNF_CARD_AUTH and so on. *)

FUNF_CARD_AUTH == 2
CDR_DETAILS_ACK == 5
MAINT_REQ == 6
ALARM == 7
CALL_IN == 8
CALL_BACK == 9
TERM_STATUS == 10
END_DATA == 13
TABLE_UPD_ACK == 14
MAINT_ACK == 15
ALARM_ACK == 16
TRANS_DATA == 17
TABLE_UPD == 18
TIME_SYNC == 20
NCC_TERM_PARAMS == 21
CARD_TABLE == 22
CARRIER_TABLE == 23
CALLSCRN_UNIVERSAL == 24
FCONFIG_OPTS == 26
VIS_PROMPTS_L1 == 27
VIS_PROMPTS_L2 == 28
ADVERT_PROMPTS == 29
USER_IF_PARMS == 30
INSTALL_PARAMS == 31
COMM_STAT_PARMS == 32
MODEM_PARMS == 33
CALL_STAT_PARMS == 34
CALL_IN_PARMS == 35
TIME_SYNC_REQ == 36
PERF_STATS_MSG == 37
CASH_BOX_STATUS == 38
ATN_REQ_CDR_UPL == 42
ATN_REQ_TAB_UPD == 44
COIN_VAL_TABLE == 50
CASH_BOX_COLLECTION == 51
CALL_DETAILS == 53
REP_DIAL_LIST == 55
SUMMARY_CALL_STATS == 56
CARRIER_CALL_STATS == 57
LIMSERV_DATA == 58
CALLSCRN_EXP == 59
SW_VERSION == 60
NUM_PLAN_TABLE == 62
RATE_REQUEST == 63
RATE_RESPONSE == 64
AUTH_RESP_CODE == 65
CARRIER_STATS_EXP == 71
SPARE_TABLE == 72
RATE_TABLE == 73
TERM_ERR_REP == 83
EXP_VIS_PROPTS_L1 == 85
EXP_VIS_PROPTS_L2 == 86
CALL_SCREEN_LIST == 92
SCARD_PARM_TABLE == 93
CARD_TABLE_EXP == 134
CARRIER_TABLE_EXP == 135
NPA_SBR_TABLE == 150
INTL_SBR_TABLE == 151

LCD_TABLE(n) == IF n <= 8 THEN 73 + n ELSE 81 + n
COMP_LCD_TABLE(n) == 100 + n
NPA_NXX_TABLE(n) == IF n <= 14 THEN 135 + n ELSE 145 + n

---------------------------------------------------------------------------
(* The layouts of the tables from the terminal: fields and how many bytes each has. *)

COIN_COUNT_MAX == 8
PERF_STATS_MAX == 43

dlog_mt_alarm_t == <<<<"id", 1>>, <<"timestamp", 6>>, <<"alarm_id", 1>>>>
dlog_mt_maint_req_t == <<<<"id", 1>>, <<"type", 2>>, <<"access_pin", 3>>>>
dlog_mt_call_details_t ==
    <<<<"id", 1>>, <<"rate_type", 1>>, <<"called_num", 10>>, <<"carrier_code", 1>>,
      <<"card_num", 10>>, <<"call_cost", 4 * 2>>, <<"seq", 2>>, <<"start_timestamp", 6>>,
      <<"call_duration", 3>>, <<"call_type", 1>>, <<"auth_code", 8>>, <<"flags", 1>>,
      <<"card_ref", 1>>, <<"unknown", 1>>>>
dlog_mt_cash_box_collection_t ==
    <<<<"id", 1>>, <<"pad", 14>>, <<"timestamp", 6>>, <<"pad2", 4>>, <<"status", 1>>,
      <<"percent_full", 1>>, <<"currency_value", 2>>, <<"pad3", 4>>,
      <<"coin_count", 2 * COIN_COUNT_MAX>>, <<"spare", 22>>>>
cashbox_status_univ_t ==
    <<<<"id", 1>>, <<"timestamp", 6>>, <<"pad", 4>>, <<"status", 1>>, <<"percent_full", 1>>,
      <<"currency_value", 2>>, <<"pad2", 2 * 2>>, <<"coin_count", 2 * COIN_COUNT_MAX>>,
      <<"spare", 22>>>>
dlog_mt_perf_stats_record_t ==
    <<<<"id", 1>>, <<"timestamp", 6>>, <<"timestamp2", 6>>, <<"stats", 2 * PERF_STATS_MAX>>>>
dlog_mt_summary_call_stats_t ==
    <<<<"id", 1>>, <<"timestamps", 6 + 6>>, <<"stats", 2 * 16>>, <<"rep_dialer_peg_count", 2 * 10>>,
      <<"total_call_duration", 4>>, <<"total_time_off_hook", 4>>, <<"counts", 4 * 2>>>>
carrier_stats_entry_t == <<<<"carrier_ref", 1>>, <<"stats", 2 * 29>>>>
carrier_stats_exp_entry_t ==
    <<<<"carrier_ref", 1>>, <<"stats", 2 * 4 * 12>>, <<"call_counts", 4 * 2>>,
      <<"total_call_duration", 4>>, <<"mode_calls", 2 * 2>>, <<"spare_counter", 2>>>>
dlog_mt_sw_version_t ==
    <<<<"id", 1>>, <<"control_rom_edition", 7>>, <<"control_version", 4>>,
      <<"telephony_rom_edition", 7>>, <<"telephony_version", 4>>, <<"term_type", 1>>,
      <<"validator_sw_ver", 2>>, <<"validator_hw_ver", 2>>>>
dlog_mt_rate_request_t ==
    <<<<"id", 1>>, <<"telco_id", 1>>, <<"pad", 1>>, <<"phone_number", 10>>, <<"timestamp", 6>>,
      <<"pad2", 1>>, <<"call_type", 1>>, <<"pad3", 1>>, <<"rate_type", 1>>, <<"pad4", 2>>>>
dlog_mt_funf_card_auth_t ==
    <<<<"id", 1>>, <<"control_flag", 1>>, <<"phone_number", 10>>, <<"carrier_ref", 1>>,
      <<"card_number", 12>>, <<"service_code", 2>>, <<"unknown", 2>>, <<"exp_yy", 1>>,
      <<"exp_mm", 1>>, <<"unknown2", 2>>, <<"pin", 2>>, <<"call_type", 1>>,
      <<"card_ref_num", 1>>, <<"seq", 2>>>>
dlog_mt_term_status_t == <<<<"id", 1>>, <<"serialnum", 5>>, <<"status", 5>>>>

SizeOf(struct) ==
    LET size[k \in 0..Len(struct)] == IF k = 0 THEN 0 ELSE size[k - 1] + struct[k][2]
    IN  size[Len(struct)]

dlog_mt_carrier_call_stats_t ==
    <<<<"id", 1>>, <<"timestamp", 6>>, <<"timestamp2", 6>>,
      <<"carrier_stats", 3 * SizeOf(carrier_stats_entry_t)>>>>
CARRIER_STATS_EXP_MAX_CARRIERS == 2
dlog_mt_carrier_stats_exp_t ==
    <<<<"id", 1>>, <<"timestamp", 6>>, <<"timestamp2", 6>>, <<"stats_vintage", 1>>,
      <<"carrier", CARRIER_STATS_EXP_MAX_CARRIERS * SizeOf(carrier_stats_exp_entry_t)>>>>

\* The bytes of a field, in a table that begins at a place in a sequence of bytes.
Offset(struct, field) ==
    LET i == CHOOSE k \in 1..Len(struct) : struct[k][1] = field
    IN  SizeOf(SubSeq(struct, 1, i - 1))
Width(struct, field) == struct[CHOOSE k \in 1..Len(struct) : struct[k][1] = field][2]

---------------------------------------------------------------------------
(* The lists of tables, of which END_DATA is the last. *)

NpaNxxTables == [n \in 1..14 |-> NPA_NXX_TABLE(n)]
PromptTables == <<VIS_PROMPTS_L1, VIS_PROMPTS_L2>>
ParameterTables ==
    <<ADVERT_PROMPTS, USER_IF_PARMS, INSTALL_PARAMS, COMM_STAT_PARMS, MODEM_PARMS,
      CALL_STAT_PARMS, CALL_IN_PARMS, COIN_VAL_TABLE, REP_DIAL_LIST, LIMSERV_DATA>>
RatingTables ==
    NpaNxxTables \o <<NPA_SBR_TABLE, INTL_SBR_TABLE, NPA_NXX_TABLE(15), NPA_NXX_TABLE(16), END_DATA>>

table_list_mtr_2x ==
    <<NCC_TERM_PARAMS, FCONFIG_OPTS>> \o ParameterTables
    \o <<NUM_PLAN_TABLE, SPARE_TABLE, RATE_TABLE, EXP_VIS_PROPTS_L1, EXP_VIS_PROPTS_L2,
         CALL_SCREEN_LIST, SCARD_PARM_TABLE, CARD_TABLE_EXP, CARRIER_TABLE_EXP>> \o RatingTables

table_list_mtr_120 ==
    <<NCC_TERM_PARAMS, FCONFIG_OPTS>> \o PromptTables \o ParameterTables
    \o <<NUM_PLAN_TABLE, RATE_TABLE, CALL_SCREEN_LIST, SCARD_PARM_TABLE, CARD_TABLE_EXP,
         CARRIER_TABLE_EXP>> \o RatingTables

table_list_mtr19 ==
    <<NCC_TERM_PARAMS, CARD_TABLE, CARRIER_TABLE, FCONFIG_OPTS>> \o PromptTables \o ParameterTables
    \o <<NUM_PLAN_TABLE, RATE_TABLE, CALL_SCREEN_LIST, SCARD_PARM_TABLE>>
    \o [n \in 1..7 |-> COMP_LCD_TABLE(n)] \o <<END_DATA>>

table_list_mtr17 ==
    <<NCC_TERM_PARAMS, CARD_TABLE, CARRIER_TABLE, CALLSCRN_UNIVERSAL, FCONFIG_OPTS>>
    \o PromptTables \o ParameterTables \o <<NUM_PLAN_TABLE, RATE_TABLE>>
    \o [n \in 1..10 |-> LCD_TABLE(n)] \o <<END_DATA>>

table_list_mtr17_intl ==
    <<NCC_TERM_PARAMS, CARD_TABLE, CARRIER_TABLE, FCONFIG_OPTS>> \o PromptTables \o ParameterTables
    \o <<CALLSCRN_EXP, NUM_PLAN_TABLE, RATE_TABLE>> \o [n \in 1..7 |-> LCD_TABLE(n)] \o <<END_DATA>>

table_list(version) ==
    CASE version = MTR_2_X -> table_list_mtr_2x
      [] version = MTR_1_20 -> table_list_mtr_120
      [] version \in {MTR_1_13, MTR_1_11, MTR_1_10, MTR_1_9} -> table_list_mtr19
      [] version = MTR_1_7_INTL -> table_list_mtr17_intl
      [] OTHER -> table_list_mtr17

\* A coin telephone has no use for the card tables, nor a card telephone for the coins.
Unsuited(id, model) ==
    \/ model = TERM_COIN_BASIC /\ id \in {CARD_TABLE, CARD_TABLE_EXP}
    \/ model \in {TERM_CARD, TERM_DESK} /\ id = COIN_VAL_TABLE

Mandatory_NoRates ==
    {NCC_TERM_PARAMS, CARD_TABLE, CARRIER_TABLE, CALLSCRN_UNIVERSAL, FCONFIG_OPTS, INSTALL_PARAMS,
     COIN_VAL_TABLE, NUM_PLAN_TABLE, SPARE_TABLE, CALL_SCREEN_LIST, SCARD_PARM_TABLE,
     CARD_TABLE_EXP, CARRIER_TABLE_EXP, NPA_NXX_TABLE(1), COMP_LCD_TABLE(1), LCD_TABLE(1), END_DATA}
\* The tables that the -s option leaves in.
Mandatory ==
    {NCC_TERM_PARAMS, CARD_TABLE, CARRIER_TABLE, CALLSCRN_UNIVERSAL, FCONFIG_OPTS, INSTALL_PARAMS,
     COIN_VAL_TABLE, NUM_PLAN_TABLE, SPARE_TABLE, RATE_TABLE, CALL_SCREEN_LIST, SCARD_PARM_TABLE,
     CARD_TABLE_EXP, CARRIER_TABLE_EXP, NPA_NXX_TABLE(1), COMP_LCD_TABLE(1), LCD_TABLE(1), END_DATA}

---------------------------------------------------------------------------
(* The options that end up in tables: -a, -k and -n. *)

access_code(digits) == IF digits = <<>> THEN <<39, 39, 55, 142>> ELSE Pack(Append(digits, END_OF_NUMBER))
key_card_number(digits) == IF digits = <<>> THEN <<64, 18, 136, 136, 136>> ELSE Pack(digits)
ncc_number(numbers) ==
    CASE Len(numbers) = 0 -> <<<<>>, <<>>>>
      [] Len(numbers) = 1 -> <<numbers[1], numbers[1]>>
      [] Len(numbers) = 2 -> numbers
rx_packet_gap == 10

---------------------------------------------------------------------------
(* The tables that the manager generates. *)

LE16(n) == <<n % 256, n \div 256>>
LE16s(words) == FlattenSeq([i \in 1..Len(words) |-> LE16(words[i])])
Zeros(n) == [i \in 1..n |-> 0]

generate_install_parameters(access, key) ==
    <<INSTALL_PARAMS>> \o access_code(access) \o key_card_number(key)
    \o <<0, 10, rx_packet_gap, 40, 0>> \o LE16(150) \o <<10, 0, 0, 0, 10, 0, 0, 0>> \o Zeros(12)

generate_term_access_parameters(terminal_id, ncc) ==
    <<NCC_TERM_PARAMS>> \o TerminalBytes(terminal_id)
    \o string_to_bcd_a(ncc[1], 10) \o string_to_bcd_a(ncc[2], 10) \o Zeros(22)

generate_term_access_parameters_mtr1(terminal_id, ncc) ==
    <<NCC_TERM_PARAMS>> \o TerminalBytes(terminal_id)
    \o string_to_bcd_a(ncc[1], 6) \o string_to_bcd_a(ncc[2], 6)

CallInHour_Noon(hour) == IF hour > 12 THEN hour - 12 ELSE hour
\* The terminal calls at this hour and 12 hours later, until midnight.
CallInHour(hour) == IF hour >= 12 THEN hour - 12 ELSE hour

generate_call_in_parameters(now) ==
    <<CALL_IN_PARMS, now.year, now.month, now.day, CallInHour(now.hour), now.min, now.sec>>
    \o <<0, 12, 0, 15, 0, 30, now.year + 1, now.month, now.day, 2, 0, 0, 0, 0>>

generate_call_stat_parameters ==
    <<CALL_STAT_PARMS, 0, 0, 1, 1>> \o Zeros(4 * 2) \o <<6, 40, 0, 0, 255, 0>>

generate_comm_stat_parameters ==
    <<COMM_STAT_PARMS>> \o LE16s(<<100, 50, 100, 50, 0, 0, 10, 5, 600, 100>>)
    \o <<1, 0, 0, 1>> \o Zeros(4 * 2)

generate_user_if_parameters ==
    <<USER_IF_PARMS>>
    \o LE16s(<<450, 450, 450, 450, 450, 3000, 4500, 300, 1100, 100, 1000, 200, 1200>>) \o <<3>>
    \o LE16s(<<450, 400, 300, 450, 4000, 6000, 50, 300, 30, 5, 200, 125, 125, 0, 0, 600, 600,
               15000, 45, 10>>)

generate_dlog_mt_end_data == <<END_DATA>>

\* load_mm_table: the file behind the number of the table; a list of 180 numbers is filled
\* up to one of 200 for the versions that expect so many.
load_mm_table(id, version, size, byte) ==
    LET padded == id = CALL_SCREEN_LIST /\ MTR_1_9 <= version /\ version < MTR_1_20 /\ size + 1 = 3061
    IN  <<id>> \o [i \in 1..size |-> byte] \o Zeros(IF padded THEN 340 ELSE 0)
================================================================================
