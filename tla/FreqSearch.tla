----------------------------- MODULE FreqSearch -----------------------------
(***************************************************************************)
(* freq_search(): the row of a table whose frequency is nearest to what is *)
(* asked for.  The loop runs over the length of the shortest table,        *)
(* whichever table it searches.                                            *)
(***************************************************************************)
EXTENDS Integers, Sequences

CONSTANTS
  BOARDS,    \* BOARD_9K, BOARD_20K, BOARD_BOTH
  tables,    \* for each of them, rows <<freq, idiv_sel, fbdiv_sel, odiv_sel>>
  SCANNED,   \* rows of freqs_both
  MIN0       \* what min starts from, 99999 MHz

ASSUME TableAssumption ==
  /\ SCANNED \in Nat \ {0} /\ MIN0 \in Int
  /\ \A b \in BOARDS :
       /\ 1..SCANNED \subseteq DOMAIN tables[b]
       /\ \A k \in DOMAIN tables[b] : tables[b][k][1] \in Int

VARIABLES
  board, target_freq,   \* the arguments
  i, min, index_min     \* index_min = 0: not initialised
search == <<board, target_freq, i, min, index_min>>

SearchInit ==
  /\ board = CHOOSE b \in BOARDS : TRUE
  /\ target_freq = 0
  /\ i = 1 /\ min = MIN0 /\ index_min = 0

SearchBegin(b, target) ==
  /\ board' = b /\ target_freq' = target
  /\ i' = 1 /\ min' = MIN0 /\ index_min' = 0

Distance(b, target, k) ==
  LET d == target - tables[b][k][1] IN IF d < 0 THEN -d ELSE d
Diff(k) == Distance(board, target_freq, k)

Searching == i <= SCANNED

Found == tables[board][index_min]

(* The function returns: its variables are gone.                           *)
SearchReturn ==
  /\ ~Searching
  /\ board' = (CHOOSE b \in BOARDS : TRUE) /\ target_freq' = 0
  /\ i' = 1 /\ min' = MIN0 /\ index_min' = 0

(* Definitions named Mut.. are mutants: a definition with a bug a careless *)
(* edit of the code could make, used only to see a property refuse it.     *)

(* min is not updated: the last row that is near enough wins.              *)
MutSearchRowForgets ==
  /\ Searching
  /\ IF Diff(i) < min THEN index_min' = i ELSE UNCHANGED index_min
  /\ i' = i + 1
  /\ UNCHANGED <<board, target_freq, min>>

SearchRow ==
  /\ Searching
  /\ IF Diff(i) < min THEN min' = Diff(i) /\ index_min' = i
     ELSE UNCHANGED <<min, index_min>>
  /\ i' = i + 1
  /\ UNCHANGED <<board, target_freq>>

(* The parameters returned are those of the table's row whose frequency is *)
(* as close to what is asked for as any: of all its rows, those behind the *)
(* length of the shortest table included, and whatever is asked for.  It   *)
(* is true of the frequencies that are in reach, see below, and of those   *)
(* only.                                                                   *)
Nearest ==
  ~Searching => /\ index_min \in DOMAIN tables[board]
                /\ \A k \in DOMAIN tables[board] : Diff(index_min) <= Diff(k)

(* In reach of the search: a row that is scanned is within what min starts *)
(* from and no further away than any row that is not scanned.              *)
InReach(b, target) ==
  \E k \in 1..SCANNED :
    /\ Distance(b, target, k) < MIN0
    /\ \A j \in DOMAIN tables[b] :
         j \notin 1..SCANNED => Distance(b, target, k) <= Distance(b, target, j)

=============================================================================
