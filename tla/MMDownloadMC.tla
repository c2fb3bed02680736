---------------------------- MODULE MMDownloadMC ----------------------------
(* A coin telephone, which is not sent the card table, and one that takes it. *)
EXTENDS MMDownload

CONSTANTS coin, multi, coinPhone, multiPhone, cardTable

MCModelOf == [t \in Terminals |-> IF t = coinPhone THEN coin ELSE multi]
MCTableList == [m \in Models |-> Tables]
MCNotFor == [m \in Models |-> IF m = coin THEN {cardTable} ELSE {}]
MCFiles == {<<Default, cardTable>>, <<multi, cardTable>>, <<multiPhone, cardTable>>}
=============================================================================
