------------------------------ MODULE LogFile ------------------------------
(***************************************************************************)
(* The files of the write-ahead log and of the undo log (wal.cpp,          *)
(* txn_manager.cpp): records appended by several sessions, each file under *)
(* its own lock, the records of a transaction taken out when it ends, and  *)
(* the tracking (TxnIoShared::LogContents) that spares reading the file.   *)
(*                                                                         *)
(* A file is a sequence of words, a word a tuple of numbers; the checksum  *)
(* of some words is the one word that holds all of them (FNV taken to be   *)
(* collision free).  A write that fails leaves some first words of its     *)
(* record; a crash keeps a first part of the file that holds what was      *)
(* synced.                                                                 *)
(***************************************************************************)
EXTENDS Integers, SequencesExt, FiniteSets

CONSTANTS Txns,      \* transactions, positive numbers
          MaxSerial, \* bound: how many row changes and checkpoints are logged
          MaxFaults  \* bound: writes and syncs that fail, and crashes

VARIABLES
  file,   \* the words of each file
  synced, \* how many of them a crash cannot take
  known,  \* LogContents::known
  ids,    \* LogContents::txns
  doing,  \* what each transaction has to do next, one lock section after the other; <<>> between statements
  state,  \* "none", "open", "ended" or "cut" (by a crash)
  point,  \* the session that writes a checkpoint: "none", "written"
  serial, faults,
  meant   \* history: the records each file should hold

vars == <<file, synced, known, ids, doing, state, point, serial, faults, meant>>
Logs == {"wal", "undo"}

Insert == 1
Commit == 255
Rollback == 254
Checkpoint == 253
Ops(l) == IF l = "wal" THEN {Insert, Commit, Rollback, Checkpoint} ELSE {Insert}
Rec(op, t, data) == [op |-> op, txn |-> t, data |-> data]

Sum(words) == FoldLeft(LAMBDA a, w : a \o w, <<0, 0>>, words)
\* encode: the operation, the transaction, the data with its length, the checksum of all that.
Encode(r) == LET words == <<<<r.op>>, <<r.txn>>, <<Len(r.data)>>>> \o [i \in DOMAIN r.data |-> <<r.data[i]>>] IN Append(words, Sum(words))
UndoEncode(r) == LET words == <<<<r.op>>, <<r.txn>>>> \o (IF r.data = <<>> THEN <<<<0>>>> ELSE <<<<1>>, <<Len(r.data)>>>> \o [i \in DOMAIN r.data |-> <<r.data[i]>>])
                 IN  Append(words, Sum(words))
Encoded(l, r) == IF l = "wal" THEN Encode(r) ELSE UndoEncode(r)

Nothing == [ok |-> FALSE]
\* read_string: the data whose length stands at pos.
ReadString(f, pos) ==
  IF pos > Len(f) \/ pos + f[pos][1] > Len(f) THEN Nothing
  ELSE [ok |-> TRUE, data |-> [i \in 1..f[pos][1] |-> f[pos + i][1]], next |-> pos + f[pos][1] + 1]
\* Mutant: the checksum is not compared.
BugChecked(f, start, str) ==
  IF ~str.ok \/ str.next > Len(f) THEN Nothing
  ELSE [ok |-> TRUE, rec |-> Rec(f[start][1], f[start + 1][1], str.data), next |-> str.next + 1]

\* The record that ends with the checksum at str.next.
Checked(f, start, str) ==
  IF ~str.ok \/ str.next > Len(f) \/ f[str.next] # Sum(SubSeq(f, start, str.next - 1)) THEN Nothing
  ELSE [ok |-> TRUE, rec |-> Rec(f[start][1], f[start + 1][1], str.data), next |-> str.next + 1]

\* decode: the record at pos, and where the next one starts.
Decode(f, pos) ==
  IF pos + 1 > Len(f) \/ Len(f[pos]) # 1 \/ f[pos][1] \notin Ops("wal") THEN Nothing ELSE Checked(f, pos, ReadString(f, pos + 2))
UndoDecode(f, pos) ==
  IF pos + 2 > Len(f) \/ Len(f[pos]) # 1 \/ f[pos][1] \notin Ops("undo") THEN Nothing
  ELSE Checked(f, pos, IF f[pos + 2][1] = 1 THEN ReadString(f, pos + 3) ELSE [ok |-> TRUE, data |-> <<>>, next |-> pos + 3])
RECURSIVE ReadFrom(_, _, _)
ReadFrom(l, f, pos) ==
  LET d == IF l = "wal" THEN Decode(f, pos) ELSE UndoDecode(f, pos)
  IN  IF ~d.ok THEN <<>> ELSE <<d.rec>> \o ReadFrom(l, f, d.next)
\* read_all_locked: the records up to the first that is not one.
ReadAll(l, f) == ReadFrom(l, f, 1)
TxnIdsOf(rs) == {rs[i].txn : i \in DOMAIN rs}
Without(rs, t) == SelectSeq(rs, LAMBDA r : r.txn # t)
Words(l, rs) == FlattenSeq([i \in DOMAIN rs |-> Encoded(l, rs[i])])
Torn(l) == Words(l, ReadAll(l, file[l])) # file[l]

TypeOK ==
  /\ DOMAIN file = Logs /\ synced \in [Logs -> Nat] /\ \A l \in Logs : synced[l] <= Len(file[l])
  /\ known \in [Logs -> BOOLEAN] /\ ids \in [Logs -> SUBSET (Txns \cup {0})]
  /\ state \in [Txns -> {"none", "open", "ended", "cut"}] /\ point \in {"none", "written"}

Init ==
  /\ file = [l \in Logs |-> <<>>] /\ synced = [l \in Logs |-> 0]
  /\ known = [l \in Logs |-> FALSE] /\ ids = [l \in Logs |-> {}]
  /\ doing = [t \in Txns |-> <<>>] /\ state = [t \in Txns |-> "none"] /\ point = "none"
  /\ serial = 0 /\ faults = 0 /\ meant = [l \in Logs |-> <<>>]

\* write_encoded_locked and append_locked, when they succeed: the record is in the file, and known to be.
Append_(l, r, sync) ==
  /\ file' = [file EXCEPT ![l] = @ \o Encoded(l, r)]
  /\ synced' = IF sync THEN [synced EXCEPT ![l] = Len(file'[l])] ELSE synced
  /\ ids' = [ids EXCEPT ![l] = IF known[l] THEN @ \cup {r.txn} ELSE @]
  /\ meant' = [meant EXCEPT ![l] = Append(@, r)]
  /\ UNCHANGED known

\* ... and when the write fails: some of the record may be there.
Short(l, r) ==
  /\ faults < MaxFaults /\ faults' = faults + 1
  /\ \E n \in {0, 2, 3} : file' = [file EXCEPT ![l] = @ \o SubSeq(Encoded(l, r), 1, n)]
  /\ known' = [known EXCEPT ![l] = FALSE]
  /\ UNCHANGED <<synced, ids, meant>>

\* ... or its fsync does: the record is there, whole, and known to be, and a crash may still take it.
Unsynced(l, r) == faults < MaxFaults /\ faults' = faults + 1 /\ Append_(l, r, FALSE)

\* The file as the records rs, written aside and moved into its place (write_bytes_atomic); ts are its transactions.
Replaced(l, rs) ==
  /\ file' = [file EXCEPT ![l] = Words(l, rs)]
  /\ synced' = [synced EXCEPT ![l] = Len(file'[l])]
  /\ known' = [known EXCEPT ![l] = TRUE]
  /\ ids' = [ids EXCEPT ![l] = TxnIdsOf(rs)]

\* Emptied in place, or removed: an empty file is not written aside.
Emptied(l) ==
  /\ file' = [file EXCEPT ![l] = <<>>] /\ synced' = [synced EXCEPT ![l] = 0]
  /\ known' = [known EXCEPT ![l] = TRUE] /\ ids' = [ids EXCEPT ![l] = {}]

\* remove_txn of the write-ahead log and of the undo log.
RemoveTxn(l, t) ==
  LET rest == Without(ReadAll(l, file[l]), t)
  IN  /\ IF known[l] /\ t \notin ids[l] THEN UNCHANGED <<file, synced, known, ids>>
         ELSE IF (known[l] /\ ids[l] = {t}) \/ rest = <<>> THEN Emptied(l) ELSE Replaced(l, rest)
      /\ meant' = [meant EXCEPT ![l] = IF Torn(l) THEN rest ELSE Without(@, t)]
UndoRemoveTxn(t) == RemoveTxn("undo", t)

\* A statement logs a row change: in the write-ahead log, then in the undo log.
LogChange(t) ==
  /\ state[t] \in {"none", "open"} /\ doing[t] = <<>> /\ serial < MaxSerial
  /\ state' = [state EXCEPT ![t] = "open"]
  /\ serial' = serial + 1
  /\ \E old \in {<<>>, <<serial>>} :
       doing' = [doing EXCEPT ![t] = <<[log |-> "wal", rec |-> Rec(Insert, t, <<serial>>)], [log |-> "undo", rec |-> Rec(Insert, t, old)]>>]
  /\ UNCHANGED <<file, synced, known, ids, point, faults, meant>>

\* COMMIT and ROLLBACK: a record, then the records are taken out of both files.
Prune(l, t) == [log |-> l, rec |-> Rec(0, t, <<>>)]
End(t, op) ==
  /\ state[t] = "open" /\ doing[t] = <<>>
  /\ doing' = [doing EXCEPT ![t] = <<[log |-> "wal", rec |-> Rec(op, t, <<>>)], Prune("wal", t), Prune("undo", t)>>]
  /\ UNCHANGED <<file, synced, known, ids, state, point, serial, faults, meant>>
CommitTxn(t) == End(t, Commit)
RollbackTxn(t) == End(t, Rollback)

\* The next lock section of t.
Step(t) ==
  LET d == Head(doing[t])
  IN  /\ doing[t] # <<>>
      /\ doing' = [doing EXCEPT ![t] = Tail(@)]
      /\ state' = IF doing[t] = <<Prune("undo", t)>> THEN [state EXCEPT ![t] = "ended"] ELSE state
      /\ IF d.rec.op # 0 THEN \E sync \in BOOLEAN : (sync => d.rec.op = Commit) /\ Append_(d.log, d.rec, sync)
         ELSE IF d.log = "undo" THEN UndoRemoveTxn(t) ELSE RemoveTxn("wal", t)
      /\ UNCHANGED <<point, serial, faults>>

\* A write fails, or the fsync of a commit record: the statement ends with an error, the transaction stays open.
Fails(t) ==
  /\ doing[t] # <<>> /\ Head(doing[t]).rec.op # 0
  /\ \/ Short(Head(doing[t]).log, Head(doing[t]).rec)
     \/ Head(doing[t]).rec.op = Commit /\ Unsynced("wal", Head(doing[t]).rec)
  /\ doing' = [doing EXCEPT ![t] = <<>>]
  /\ UNCHANGED <<state, point, serial>>

\* do_checkpoint, when no transaction was open: log_checkpoint ...
LogCheckpoint ==
  /\ point = "none" /\ \A t \in Txns : state[t] # "open"
  /\ Append_("wal", Rec(Checkpoint, 0, <<>>), TRUE)
  /\ point' = "written"
  /\ serial < MaxSerial /\ serial' = serial + 1
  /\ UNCHANGED <<doing, state, faults>>

\* ... which may fail, and then nothing is truncated ...
CheckpointFails ==
  /\ point = "none" /\ \A t \in Txns : state[t] # "open"
  /\ Short("wal", Rec(Checkpoint, 0, <<>>)) \/ Unsynced("wal", Rec(Checkpoint, 0, <<>>))
  /\ UNCHANGED <<doing, state, point, serial>>

\* ... and truncate_to_last_checkpoint: what was logged before the checkpoint goes.
Truncate ==
  LET all == ReadAll("wal", file["wal"])
      points == {i \in DOMAIN all : all[i].op = Checkpoint}
      rest == SubSeq(all, CHOOSE i \in points : \A j \in points : j <= i, Len(all))
  IN  /\ point = "written"
      /\ point' = "none"
      /\ IF points = {} THEN UNCHANGED <<file, synced, known, ids, meant>>
         ELSE /\ IF Len(rest) <= 1 THEN Emptied("wal") ELSE Replaced("wal", rest)
              /\ meant' = [meant EXCEPT !["wal"] = IF Len(rest) <= 1 THEN <<>> ELSE rest]
      /\ UNCHANGED <<doing, state, serial, faults>>

\* How much of a file a crash leaves: all, all but the last words, or what was synced.
Cuts(l) == {n \in {Len(file[l]), Len(file[l]) - 2, synced[l]} : n >= synced[l]}

\* The machine stops and the server starts again: recover_from_wal reads the log and, when it holds a record, empties both files.
CrashAndRecover ==
  /\ faults < MaxFaults /\ faults' = faults + 1
  /\ \E w \in Cuts("wal"), u \in Cuts("undo") :
          LET left == [wal |-> SubSeq(file["wal"], 1, w), undo |-> SubSeq(file["undo"], 1, u)]
              found == ReadAll("wal", left["wal"])
          IN  /\ file' = IF found = <<>> THEN left ELSE [l \in Logs |-> <<>>]
              /\ synced' = [l \in Logs |-> Len(file'[l])]
              /\ known' = [l \in Logs |-> found # <<>>]
              /\ meant' = [l \in Logs |-> ReadAll(l, file'[l])]
  /\ ids' = [l \in Logs |-> {}]
  /\ doing' = [t \in Txns |-> <<>>] /\ point' = "none"
  /\ state' = [t \in Txns |-> IF state[t] = "open" THEN "cut" ELSE state[t]]
  /\ UNCHANGED serial

Next ==
  \/ \E t \in Txns : LogChange(t) \/ CommitTxn(t) \/ RollbackTxn(t) \/ Step(t) \/ Fails(t)
  \/ LogCheckpoint \/ CheckpointFails \/ Truncate \/ CrashAndRecover
Spec == Init /\ [][Next]_vars

(***************************************************************************)
(* A file reads back as the records it should hold -- all of them, unless  *)
(* a write broke off, and then those before the break -- and what is       *)
(* tracked of a file is what is in it: a transaction that is taken out     *)
(* without the file being read takes nothing of another with it, and one   *)
(* that has ended has left no record.                                      *)
(***************************************************************************)
LogReadsBack ==
  \A l \in Logs :
    LET r == ReadAll(l, file[l])
    IN  /\ IsPrefix(r, meant[l]) /\ (~Torn(l) => r = meant[l])
        /\ known[l] => ~Torn(l) /\ ids[l] = TxnIdsOf(r)
        /\ \A t \in Txns : state[t] = "ended" => t \notin TxnIdsOf(r)
=============================================================================
