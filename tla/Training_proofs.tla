-------------------------- MODULE Training_proofs --------------------------
(* Proofs about the training side: the rows of a source in the shards that    *)
(* DataPipeline writes, the checkpoints that CheckpointKeeper keeps, the      *)
(* data the ranks of MtCorpus train on, the checkpoint that MergeReady        *)
(* merges and makes servable, the batches of LayoutData, and what a run       *)
(* reports of itself (Throughput).                                            *)
EXTENDS DataPipeline, CheckpointKeeper, MtCorpus, MergeReady, LayoutData, Throughput, SequenceFacts,
        FiniteSetTheorems

-----------------------------------------------------------------------------
(* The tokenizing of a source.                                               *)

(* The run `training` does this in its part "data".                          *)
DataSpec == PipelineInit /\ [][PipelineNext]_pipelineVars

Rows == 1 .. MaxRows
Statuses == {"pending", "done"}
Manifests == {m \in [size : Sizes, shards : Seq(Statuses)] : Len(m.shards) <= MaxRows}
Log == [rows : SUBSET Rows, torn : BOOLEAN]

TokType ==
    /\ total \in 1 .. MaxRows /\ rps \in Sizes
    /\ manifest \in Manifests \cup {NoFile}
    /\ files \in [Ids -> (SUBSET Rows) \cup {NoFile}]
    /\ failedLog \in Log
    /\ tokPc \in {"down", "next", "write", "log", "mark"}
    /\ status \in Seq(Statuses)
    /\ todo \subseteq Ids
    /\ cur \in [id : Ids, ok : SUBSET Rows, bad : SUBSET Rows]
    /\ given \in [Ids -> SUBSET Rows]
    /\ cutShort \subseteq Ids

(* What the driver has in memory is what the manifest says, and no entry is  *)
(* beyond the rows of the source.                                            *)
ManifestInv ==
    /\ manifest # NoFile => Len(manifest.shards) <= ShardCount(total, manifest.size)
    /\ tokPc # "down" => manifest # NoFile /\ manifest.size = rps /\ manifest.shards = status
    /\ tokPc = "down" => todo = {}

(* What is in the driver's hands, or still to come, has an entry that is not *)
(* done; and a result accounts for every row its shard was submitted with.   *)
InHand == tokPc \in {"write", "log", "mark"}
HandInv ==
    /\ \A id \in todo : ~Done(id) /\ id + 1 \in DOMAIN status
    /\ InHand => /\ ~Done(cur.id) /\ cur.id + 1 \in DOMAIN status /\ cur.id \notin todo
                 /\ cur.ok \cup cur.bad = given[cur.id]

(* The rows of a shard's file.                                               *)
InFile(id) == IF files[id] = NoFile THEN {} ELSE files[id]

(* A file is that of a finished shard, or of the one in hand, unless its run *)
(* was killed before the entry; and what is in hand is kept as it goes.      *)
FileInv ==
    /\ \A id \in Ids : files[id] # NoFile /\ id \notin cutShort
         => Done(id) \/ (tokPc \in {"log", "mark"} /\ id = cur.id)
    /\ tokPc = "log" /\ cur.id \notin cutShort => cur.ok \subseteq InFile(cur.id)
    /\ tokPc = "mark" /\ cur.id \notin cutShort
         => given[cur.id] \subseteq failedLog.rows \cup InFile(cur.id)

KeptInv ==
    \A id \in Ids : Done(id) /\ id \notin cutShort
        => given[id] \subseteq failedLog.rows \cup InFile(id)

TokInv == TokType /\ ManifestInv /\ HandInv /\ FileInv /\ KeptInv


(* How many shards the rows make: no more than the rows, and no fewer as     *)
(* they grow.                                                                *)
LEMMA CountFacts ==
  ASSUME NEW n \in Nat, NEW d \in Nat \ {0}
  PROVE  ShardCount(n, d) \in Nat /\ ShardCount(n, d) <= n
         /\ ShardCount(n, d) <= ShardCount(n + 1, d)
  <1>1. CeilDiv(n, d) \in Nat /\ CeilDiv(n, d) <= n
    BY DEF CeilDiv
  <1>2. CeilDiv(n, d) <= CeilDiv(n + 1, d)
    BY DEF CeilDiv
  <1> QED  BY <1>1, <1>2 DEF ShardCount

(* What the constants are.                                                   *)
LEMMA TokConstants ==
  /\ MaxRows \in Nat \ {0} /\ Sizes \subseteq Nat \ {0} /\ Ids = 0 .. MaxRows - 1 /\ 0 \in Ids
  /\ \A rows \in SUBSET Rows : rows # NoFile
  /\ \A m \in Manifests : m # NoFile
  <1>1. MaxRows \in Nat \ {0} /\ Sizes \subseteq Nat \ {0} /\ Ids = 0 .. MaxRows - 1 /\ 0 \in Ids
    BY TokenizeAssumption DEF Ids
  <1>2. \A rows \in SUBSET Rows : rows # NoFile
    BY TokenizeAssumption DEF Rows
  <1>3. ASSUME NEW m \in Manifests PROVE m # NoFile
    <2>1. /\ m \in [size : Sizes, shards : Seq(Statuses)] /\ Len(m.shards) <= MaxRows
      BY DEF Manifests
    <2>2. Len(m.shards) \in 0 .. MaxRows /\ m.shards \in [1 .. Len(m.shards) -> Statuses]
      BY <1>1, <2>1
    <2>3. m \in [size : Sizes, shards : [1 .. Len(m.shards) -> Statuses]]
      BY <2>1, <2>2
    <2> QED  BY <2>2, <2>3, TokenizeAssumption DEF Statuses
  <1> QED  BY <1>1, <1>2, <1>3

(* What the append to the log adds and keeps.                                *)
LEMMA AppendedFacts ==
  ASSUME NEW log \in Log, NEW rows \in SUBSET Rows
  PROVE  /\ Appended(log, rows) \in Log /\ log.rows \subseteq Appended(log, rows).rows
         /\ log.torn = FALSE \/ rows = {} => rows \subseteq Appended(log, rows).rows
  <1>1. CASE rows = {}
    BY <1>1 DEF Appended
  <1>2. CASE rows # {}
    <2>1. log.rows \subseteq Rows /\ log.torn \in BOOLEAN
      BY DEF Log
    <2>2. CASE log.torn = TRUE
      <3>1. Appended(log, rows) = [rows |-> log.rows \cup (rows \ {Min(rows)}), torn |-> FALSE]
        BY <1>2, <2>2 DEF Appended
      <3> QED  BY <1>2, <2>1, <2>2, <3>1 DEF Log
    <2>3. CASE log.torn = FALSE
      <3>1. Appended(log, rows) = [rows |-> log.rows \cup rows, torn |-> FALSE]
        BY <1>2, <2>3 DEF Appended
      <3> QED  BY <1>2, <2>1, <2>3, <3>1 DEF Log
    <2> QED  BY <2>1, <2>2, <2>3
  <1> QED  BY <1>1, <1>2

(* A result accounts for every row of its shard.                             *)
LEMMA EncodedFacts ==
  ASSUME TokType, NEW id \in Ids, NEW r \in Encoded(id)
  PROVE  /\ r \in [id : Ids, ok : SUBSET Rows, bad : SUBSET Rows] /\ r.id = id
         /\ r.ok \cup r.bad = given[id]
  <1>1. given[id] \subseteq Rows
    BY DEF TokType
  <1>2. PICK lost \in SUBSET ((given[id] \cap Flaky) \ Mute(given[id])) :
           r = [id |-> id, ok |-> (given[id] \ Mute(given[id])) \ lost,
                bad |-> Mute(given[id]) \cup lost]
    BY DEF Encoded
  <1>3. Mute(given[id]) \subseteq given[id] /\ lost \subseteq given[id]
    BY <1>2 DEF Mute
  <1> QED  BY <1>1, <1>2, <1>3

(* The manifest a run starts with: what was done is done, and all the rest   *)
(* is pending.                                                               *)
LEMMA SyncedFacts ==
  ASSUME TokType, ManifestInv, NEW size \in Sizes, SizeAccepted(size)
  PROVE  LET s == Synced(size) IN
         /\ s \in Seq(Statuses) /\ Len(s) = ShardCount(total, size) /\ Len(s) <= MaxRows
         /\ \A id \in Ids : Done(id) <=> id + 1 \in 1 .. Len(s) /\ s[id + 1] = "done"
  <1> DEFINE s == Synced(size)
             n == ShardCount(total, size)
             at(i) == IF manifest # NoFile /\ i <= Len(manifest.shards)
                        THEN manifest.shards[i] ELSE "pending"
  <1>1. n \in Nat /\ n <= MaxRows
    <2>1. total \in Nat /\ size \in Nat \ {0} /\ total <= MaxRows /\ MaxRows \in Nat
      BY TokConstants DEF TokType
    <2> HIDE DEF n
    <2>2. n \in Nat /\ n <= total
      BY <2>1, CountFacts DEF n
    <2> QED  BY <2>1, <2>2
  <1>2. s = [i \in 1 .. n |-> at(i)]
    BY DEF Synced
  <1>3. manifest # NoFile => manifest \in Manifests /\ manifest.size = size
                             /\ manifest.shards \in Seq(Statuses) /\ Len(manifest.shards) <= n
    BY DEF TokType, ManifestInv, SizeAccepted, Manifests
  <1>4. \A i \in 1 .. n : at(i) \in Statuses
    BY <1>3 DEF Statuses
  <1> HIDE DEF s, n, at
  <1>5. s \in Seq(Statuses) /\ Len(s) = n /\ \A i \in 1 .. n : s[i] = at(i)
    BY <1>1, <1>2, <1>4
  <1>6. ASSUME NEW id \in Ids
        PROVE  Done(id) <=> id + 1 \in 1 .. n /\ s[id + 1] = "done"
    <2>1. id + 1 \in Nat \ {0}
      BY TokConstants
    <2>2. ASSUME Done(id) PROVE id + 1 \in 1 .. n /\ s[id + 1] = "done"
      <3>1. manifest # NoFile /\ id + 1 \in 1 .. Len(manifest.shards)
            /\ manifest.shards[id + 1] = "done"
        BY <2>2 DEF Done
      <3>2. id + 1 \in 1 .. n /\ id + 1 <= Len(manifest.shards)
        BY <1>1, <1>3, <2>1, <3>1
      <3>3. at(id + 1) = "done"
        BY <3>1, <3>2 DEF at
      <3> QED  BY <1>5, <3>2, <3>3
    <2>3. ASSUME id + 1 \in 1 .. n, s[id + 1] = "done" PROVE Done(id)
      <3>1. at(id + 1) = "done"
        BY <1>5, <2>3
      <3>2. manifest # NoFile /\ id + 1 <= Len(manifest.shards)
            /\ manifest.shards[id + 1] = "done"
        BY <3>1 DEF at
      <3> QED  BY <1>3, <2>1, <3>2 DEF Done
    <2> QED  BY <2>2, <2>3
  <1>7. s \in Seq(Statuses) /\ Len(s) = ShardCount(total, size) /\ Len(s) <= MaxRows
    BY <1>1, <1>5 DEF n
  <1>8. \A id \in Ids : Done(id) <=> id + 1 \in 1 .. Len(s) /\ s[id + 1] = "done"
    BY <1>5, <1>6
  <1> QED  BY <1>7, <1>8 DEF s


(* Every step keeps the accounting of the rows.                              *)
LEMMA TokStepKeeps ==
  ASSUME TokInv, TokStep
  PROVE  TokInv'
  <1>1. /\ total \in 1 .. MaxRows /\ rps \in Sizes /\ manifest \in Manifests \cup {NoFile}
        /\ files \in [Ids -> (SUBSET Rows) \cup {NoFile}] /\ failedLog \in Log
        /\ tokPc \in {"down", "next", "write", "log", "mark"} /\ status \in Seq(Statuses)
        /\ todo \subseteq Ids /\ cur \in [id : Ids, ok : SUBSET Rows, bad : SUBSET Rows]
        /\ given \in [Ids -> SUBSET Rows] /\ cutShort \subseteq Ids
        /\ TokType /\ ManifestInv /\ HandInv /\ FileInv /\ KeptInv
    BY DEF TokInv, TokType
  <1>2. cur.id \in Ids /\ cur.ok \subseteq Rows /\ cur.bad \subseteq Rows
    BY <1>1
  <1>3. failedLog.rows \subseteq Rows
    BY <1>1 DEF Log
  (* What is kept stays kept.                                                *)
  <1>4. ASSUME cutShort \subseteq cutShort', failedLog.rows \subseteq failedLog'.rows,
               \A id \in Ids : InFile(id) \subseteq InFile(id)',
               \A id \in Ids : Done(id)' /\ id \notin cutShort'
                 => \/ Done(id) /\ given'[id] = given[id]
                    \/ given'[id] \subseteq failedLog'.rows \cup InFile(id)'
        PROVE  KeptInv'
    BY <1>1, <1>4 DEF KeptInv
  <1>5. ASSUME files' = files PROVE \A id \in Ids : InFile(id)' = InFile(id)
    BY <1>5 DEF InFile
  <1>6. ASSUME manifest' = manifest PROVE \A id \in Ids : Done(id)' = Done(id)
    BY <1>6 DEF Done
  <1>7. CASE SourceGrows
    <2>1. /\ tokPc = "down" /\ total < MaxRows /\ total' = total + 1
          /\ rps' = rps /\ manifest' = manifest /\ files' = files /\ failedLog' = failedLog
          /\ tokPc' = tokPc /\ status' = status /\ todo' = todo /\ cur' = cur
          /\ given' = given /\ cutShort' = cutShort
      BY <1>7 DEF SourceGrows
    <2>2. total' \in 1 .. MaxRows
      BY <1>1, <2>1, TokConstants
    <2>3. TokType'
      BY <1>1, <2>1, <2>2 DEF TokType
    <2>4. ManifestInv'
      <3>1. ASSUME manifest # NoFile
            PROVE  Len(manifest.shards) <= ShardCount(total + 1, manifest.size)
        <4>1. /\ manifest.size \in Nat \ {0} /\ manifest.shards \in Seq(Statuses)
              /\ Len(manifest.shards) <= ShardCount(total, manifest.size)
          BY <1>1, <3>1, TokConstants DEF ManifestInv, Manifests
        <4>2. total \in Nat /\ total + 1 \in Nat
          BY <1>1, TokConstants
        <4>3. /\ ShardCount(total, manifest.size) \in Nat
              /\ ShardCount(total + 1, manifest.size) \in Nat
              /\ ShardCount(total, manifest.size) <= ShardCount(total + 1, manifest.size)
          BY <4>1, <4>2, CountFacts
        <4>4. Len(manifest.shards) \in Nat
          BY <4>1
        <4> QED  BY <4>1, <4>3, <4>4
      <3> QED  BY <1>1, <2>1, <3>1 DEF ManifestInv
    <2>5. HandInv' /\ FileInv' /\ KeptInv'
      BY <1>1, <2>1 DEF HandInv, InHand, FileInv, KeptInv, InFile, Done
    <2> QED  BY <2>3, <2>4, <2>5 DEF TokInv
  <1>8. CASE TokStart
    <2>1. PICK size \in Sizes :
             /\ rps' = size
             /\ IF ~SizeAccepted(size)
                  THEN UNCHANGED <<manifest, status, todo, given, tokPc>>
                  ELSE LET s == Synced(size)
                           p == {i \in 0 .. Len(s) - 1 : s[i + 1] # "done"}
                       IN  /\ manifest' = [size |-> size, shards |-> s]
                           /\ status' = s
                           /\ todo' = p
                           /\ given' = [i \in Ids |-> IF i \in p
                                         THEN ShardRows(i, total, size) ELSE given[i]]
                           /\ tokPc' = IF p = {} THEN "down" ELSE "next"
      BY <1>8 DEF TokStart
    <2>2. /\ tokPc = "down" /\ total' = total /\ files' = files /\ failedLog' = failedLog
          /\ cur' = cur /\ cutShort' = cutShort /\ todo = {}
      BY <1>1, <1>8 DEF TokStart, ManifestInv
    <2>3. CASE ~SizeAccepted(size)
      <3>1. /\ manifest' = manifest /\ status' = status /\ todo' = todo /\ given' = given
            /\ tokPc' = tokPc
        BY <2>1, <2>3
      <3>2. TokType'
        BY <1>1, <2>1, <2>2, <3>1 DEF TokType
      <3>3. ManifestInv' /\ HandInv' /\ FileInv' /\ KeptInv'
        BY <1>1, <2>2, <3>1 DEF ManifestInv, HandInv, InHand, FileInv, KeptInv, InFile, Done
      <3> QED  BY <3>2, <3>3 DEF TokInv
    <2>4. CASE SizeAccepted(size)
      <3> DEFINE s == Synced(size)
                 p == {i \in 0 .. Len(s) - 1 : s[i + 1] # "done"}
      <3>1. /\ manifest' = [size |-> size, shards |-> s] /\ status' = s /\ todo' = p
            /\ given' = [i \in Ids |-> IF i \in p THEN ShardRows(i, total, size) ELSE given[i]]
            /\ tokPc' = IF p = {} THEN "down" ELSE "next"
        BY <2>1, <2>4
      <3>2. /\ s \in Seq(Statuses) /\ Len(s) = ShardCount(total, size) /\ Len(s) <= MaxRows
            /\ \A id \in Ids : Done(id) <=> id + 1 \in 1 .. Len(s) /\ s[id + 1] = "done"
        BY <1>1, <2>4, SyncedFacts
      <3> HIDE DEF s
      <3>3. Len(s) \in Nat /\ DOMAIN s = 1 .. Len(s)
        BY <3>2
      <3>4. /\ manifest'.size = size /\ manifest'.shards = s /\ manifest' \in Manifests
            /\ manifest' # NoFile
        <4>1. manifest' \in Manifests
          BY <3>1, <3>2 DEF Manifests
        <4> QED  BY <3>1, <4>1, TokConstants
      <3>5. p \subseteq Ids /\ \A i \in p : i + 1 \in DOMAIN s /\ s[i + 1] # "done"
        BY <3>2, <3>3, TokConstants
      <3> HIDE DEF p
      <3>6. given' \in [Ids -> SUBSET Rows]
        <4>1. \A i \in Ids : ShardRows(i, total, size) \subseteq Rows
          BY <1>1, TokConstants DEF ShardRows, Rows
        <4> QED  BY <1>1, <3>1, <4>1
      <3>7. tokPc' \in {"down", "next"} /\ (tokPc' = "down" => p = {})
        BY <3>1
      <3>8. TokType'
        BY <1>1, <2>1, <2>2, <3>1, <3>2, <3>4, <3>5, <3>6, <3>7 DEF TokType
      <3>9. ManifestInv'
        BY <2>1, <2>2, <3>1, <3>2, <3>3, <3>4, <3>7 DEF ManifestInv
      <3>10. \A id \in Ids : Done(id)' <=> Done(id)
        BY <3>2, <3>4 DEF Done
      <3>11. \A id \in p : ~Done(id)
        BY <3>2, <3>5
      <3>12. HandInv'
        BY <3>1, <3>5, <3>7, <3>10, <3>11 DEF HandInv, InHand
      <3>13. FileInv'
        BY <1>1, <2>2, <3>7, <3>10 DEF FileInv
      <3>14. KeptInv'
        <4>1. \A id \in Ids : Done(id) => given'[id] = given[id]
          BY <3>1, <3>11
        <4>2. \A id \in Ids : InFile(id)' = InFile(id)
          BY <1>5, <2>2
        <4> QED  BY <1>4, <2>2, <3>10, <4>1, <4>2
      <3> QED  BY <3>8, <3>9, <3>12, <3>13, <3>14 DEF TokInv
    <2> QED  BY <2>3, <2>4
  <1>9. CASE Receive
    <2>1. PICK id \in todo : cur' \in Encoded(id) /\ todo' = todo \ {id}
      BY <1>9 DEF Receive
    <2>2. /\ tokPc = "next" /\ tokPc' = "write" /\ total' = total /\ rps' = rps
          /\ manifest' = manifest /\ files' = files /\ failedLog' = failedLog
          /\ status' = status /\ given' = given /\ cutShort' = cutShort
      BY <1>9 DEF Receive
    <2>3. /\ cur' \in [id : Ids, ok : SUBSET Rows, bad : SUBSET Rows] /\ cur'.id = id
          /\ cur'.ok \cup cur'.bad = given[id]
      BY <1>1, <2>1, EncodedFacts
    <2>4. TokType'
      BY <1>1, <2>1, <2>2, <2>3 DEF TokType
    <2>5. ManifestInv'
      BY <1>1, <2>2 DEF ManifestInv
    <2>6. \A i \in Ids : Done(i)' = Done(i)
      BY <1>6, <2>2
    <2>7. HandInv'
      <3>1. \A i \in todo' : ~Done(i)' /\ i + 1 \in DOMAIN status'
        BY <1>1, <2>1, <2>2, <2>6 DEF HandInv
      <3>2. ~Done(id)' /\ id + 1 \in DOMAIN status' /\ id \notin todo'
        BY <1>1, <2>1, <2>2, <2>6 DEF HandInv
      <3>3. ~Done(cur.id)'
        BY <2>3, <3>2 DEF Done
      <3> QED  BY <2>2, <2>3, <3>1, <3>2, <3>3 DEF HandInv
    <2>8. FileInv'
      BY <1>1, <2>2, <2>6 DEF FileInv
    <2>9. KeptInv'
      BY <1>1, <2>2, <2>6 DEF KeptInv, InFile
    <2> QED  BY <2>4, <2>5, <2>7, <2>8, <2>9 DEF TokInv
  <1>10. CASE TokRaises
    <2>1. /\ tokPc' = "down" /\ todo' = {} /\ status' = <<>> /\ tokPc = "next"
          /\ total' = total /\ rps' = rps /\ manifest' = manifest /\ files' = files
          /\ failedLog' = failedLog /\ cur' = cur /\ given' = given /\ cutShort' = cutShort
      BY <1>10 DEF TokRaises
    <2>2. status' \in Seq(Statuses) /\ todo' \subseteq Ids
      BY <2>1
    <2>3. TokType'
      BY <1>1, <2>1, <2>2 DEF TokType
    <2>4. ManifestInv' /\ HandInv' /\ FileInv' /\ KeptInv'
      BY <1>1, <2>1 DEF ManifestInv, HandInv, InHand, FileInv, KeptInv, InFile, Done
    <2> QED  BY <2>3, <2>4 DEF TokInv
  <1>11. CASE WriteShard
    <2>1. /\ tokPc = "write" /\ tokPc' = "log" /\ files' = AfterWrite(cur.id, cur.ok)
          /\ total' = total /\ rps' = rps /\ manifest' = manifest /\ failedLog' = failedLog
          /\ status' = status /\ todo' = todo /\ cur' = cur /\ given' = given
          /\ cutShort' = cutShort
      BY <1>11 DEF WriteShard
    <2>2. \A i \in Ids : Done(i)' = Done(i)
      BY <1>6, <2>1
    <2>3. ~Done(cur.id)
      BY <1>1, <2>1 DEF HandInv, InHand
    <2>4. /\ files' \in [Ids -> (SUBSET Rows) \cup {NoFile}]
          /\ \A i \in Ids : i # cur.id => files'[i] = files[i]
          /\ files[cur.id] # NoFile => files'[cur.id] = files[cur.id]
          /\ files[cur.id] = NoFile /\ cur.ok # {} => files'[cur.id] = cur.ok
      <3>1. CASE cur.ok # {} /\ files[cur.id] = NoFile
        BY <1>1, <1>2, <2>1, <3>1 DEF AfterWrite
      <3>2. CASE ~(cur.ok # {} /\ files[cur.id] = NoFile)
        BY <1>1, <1>2, <2>1, <3>2 DEF AfterWrite
      <3> QED  BY <3>1, <3>2
    <2>5. cur.ok # NoFile
      BY <1>2, TokConstants
    <2>6. TokType'
      BY <1>1, <2>1, <2>4 DEF TokType
    <2>7. ManifestInv' /\ HandInv'
      BY <1>1, <2>1, <2>2 DEF ManifestInv, HandInv, InHand, Done
    <2>8. \A i \in Ids : InFile(i) \subseteq InFile(i)'
      BY <2>4 DEF InFile
    <2>9. ASSUME cur.id \notin cutShort PROVE cur.ok \subseteq InFile(cur.id)'
      <3>1. files[cur.id] = NoFile
        BY <1>1, <1>2, <2>1, <2>3, <2>9 DEF FileInv
      <3>2. CASE cur.ok = {}
        BY <3>2
      <3>3. CASE cur.ok # {}
        BY <2>1, <2>4, <2>5, <3>1, <3>3 DEF InFile
      <3> QED  BY <3>2, <3>3
    <2>10. FileInv'
      <3>1. \A i \in Ids : files'[i] # NoFile /\ i \notin cutShort => Done(i) \/ i = cur.id
        BY <1>1, <2>1, <2>4 DEF FileInv
      <3> QED  BY <2>1, <2>2, <2>9, <3>1 DEF FileInv
    <2>11. KeptInv'
      BY <1>4, <2>1, <2>2, <2>8
    <2> QED  BY <2>6, <2>7, <2>10, <2>11 DEF TokInv
  <1>12. CASE LogFailed
    <2>1. /\ tokPc = "log" /\ tokPc' = "mark" /\ failedLog' = Appended(failedLog, cur.bad)
          /\ cutShort' = cutShort \cup
               (IF failedLog.torn /\ cur.bad # {} THEN {cur.id} ELSE {})
          /\ total' = total /\ rps' = rps /\ manifest' = manifest /\ files' = files
          /\ status' = status /\ todo' = todo /\ cur' = cur /\ given' = given
      BY <1>12 DEF LogFailed
    <2>2. /\ failedLog' \in Log /\ failedLog.rows \subseteq failedLog'.rows
          /\ failedLog.torn = FALSE \/ cur.bad = {} => cur.bad \subseteq failedLog'.rows
      BY <1>1, <1>2, <2>1, AppendedFacts
    <2>3. /\ cutShort' \subseteq Ids /\ cutShort \subseteq cutShort'
          /\ cur.id \notin cutShort' => failedLog.torn = FALSE \/ cur.bad = {}
      <3>1. failedLog.torn \in BOOLEAN
        BY <1>1 DEF Log
      <3>2. CASE failedLog.torn /\ cur.bad # {}
        BY <1>1, <1>2, <2>1, <3>2
      <3>3. CASE ~(failedLog.torn /\ cur.bad # {})
        <4>1. cutShort' = cutShort
          BY <2>1, <3>3
        <4>2. failedLog.torn = FALSE \/ cur.bad = {}
          BY <3>1, <3>3
        <4> QED  BY <1>1, <4>1, <4>2
      <3> QED  BY <3>2, <3>3
    <2>4. \A i \in Ids : Done(i)' = Done(i) /\ InFile(i)' = InFile(i)
      BY <1>5, <1>6, <2>1
    <2>5. TokType'
      BY <1>1, <2>1, <2>2, <2>3 DEF TokType
    <2>6. ManifestInv' /\ HandInv'
      BY <1>1, <2>1 DEF ManifestInv, HandInv, InHand, Done
    <2>7. ASSUME cur.id \notin cutShort'
          PROVE  given[cur.id] \subseteq failedLog'.rows \cup InFile(cur.id)
      <3>1. cur.ok \subseteq InFile(cur.id) /\ cur.ok \cup cur.bad = given[cur.id]
        BY <1>1, <2>1, <2>3, <2>7 DEF FileInv, HandInv, InHand
      <3>2. cur.bad \subseteq failedLog'.rows
        BY <2>2, <2>3, <2>7
      <3> QED  BY <3>1, <3>2
    <2>8. FileInv'
      <3>1. \A i \in Ids : files[i] # NoFile /\ i \notin cutShort' => Done(i) \/ i = cur.id
        BY <1>1, <2>1, <2>3 DEF FileInv
      <3>2. InFile(cur.id)' = InFile(cur.id)
        BY <2>1 DEF InFile
      <3> QED  BY <2>1, <2>4, <2>7, <3>1, <3>2 DEF FileInv
    <2>9. KeptInv'
      BY <1>4, <2>1, <2>2, <2>3, <2>4
    <2> QED  BY <2>5, <2>6, <2>8, <2>9 DEF TokInv
  <1>13. CASE MarkDone
    <2> DEFINE c == cur.id
               s == [status EXCEPT ![c + 1] = "done"]
    <2>1. /\ tokPc = "mark" /\ status' = s /\ manifest' = [size |-> rps, shards |-> s]
          /\ tokPc' = NextResult /\ total' = total /\ rps' = rps /\ files' = files
          /\ failedLog' = failedLog /\ todo' = todo /\ cur' = cur /\ given' = given
          /\ cutShort' = cutShort
      BY <1>13 DEF MarkDone
    <2>2. /\ manifest # NoFile /\ manifest.size = rps /\ manifest.shards = status
          /\ Len(status) <= ShardCount(total, rps) /\ Len(status) <= MaxRows
      BY <1>1, <2>1 DEF ManifestInv, Manifests
    <2>3. /\ c \in Ids /\ ~Done(c) /\ c + 1 \in DOMAIN status /\ c \notin todo
          /\ cur.ok \cup cur.bad = given[c]
      BY <1>1, <1>2, <2>1 DEF HandInv, InHand
    <2> HIDE DEF c
    <2>4. /\ s \in Seq(Statuses) /\ Len(s) = Len(status) /\ DOMAIN s = DOMAIN status
          /\ s[c + 1] = "done" /\ \A i \in DOMAIN status : i # c + 1 => s[i] = status[i]
      BY <1>1, <2>3 DEF Statuses
    <2> HIDE DEF s
    <2>5. /\ manifest'.size = rps /\ manifest'.shards = s /\ manifest' \in Manifests
          /\ manifest' # NoFile
      <3>1. manifest' \in Manifests
        BY <1>1, <2>1, <2>2, <2>4 DEF Manifests
      <3> QED  BY <2>1, <3>1, TokConstants
    <2>6. tokPc' \in {"down", "next"} /\ (tokPc' = "down" => todo = {})
      BY <2>1 DEF NextResult
    <2>7. TokType'
      BY <1>1, <2>1, <2>4, <2>5, <2>6 DEF TokType
    <2>8. ManifestInv'
      BY <2>1, <2>2, <2>4, <2>5, <2>6 DEF ManifestInv
    <2>9. \A i \in Ids : Done(i)' <=> Done(i) \/ i = c
      <3> SUFFICES ASSUME NEW i \in Ids PROVE Done(i)' <=> Done(i) \/ i = c
        OBVIOUS
      <3>1. i \in Nat /\ c \in Nat /\ DOMAIN status = 1 .. Len(status)
        BY <1>1, <2>3, TokConstants
      <3>2. Done(i)' <=> i + 1 \in DOMAIN status /\ s[i + 1] = "done"
        BY <2>4, <2>5, <3>1 DEF Done
      <3>3. Done(i) <=> i + 1 \in DOMAIN status /\ status[i + 1] = "done"
        BY <2>2, <3>1 DEF Done
      <3>4. CASE i = c
        BY <2>3, <2>4, <3>2, <3>4
      <3>5. CASE i # c
        <4>1. i + 1 # c + 1
          BY <3>1, <3>5
        <4> QED  BY <2>4, <3>2, <3>3, <3>5, <4>1
      <3> QED  BY <3>4, <3>5
    <2>10. HandInv'
      BY <1>1, <2>1, <2>3, <2>4, <2>6, <2>9 DEF HandInv, InHand
    <2>11. FileInv'
      <3>1. \A i \in Ids : files[i] # NoFile /\ i \notin cutShort => Done(i) \/ i = c
        BY <1>1 DEF FileInv, c
      <3> QED  BY <2>1, <2>6, <2>9, <3>1 DEF FileInv
    <2>12. KeptInv'
      <3>1. c \notin cutShort => given[c] \subseteq failedLog.rows \cup InFile(c)
        BY <1>1, <2>1 DEF FileInv, c
      <3>2. \A i \in Ids : InFile(i)' = InFile(i)
        BY <1>5, <2>1
      <3> QED  BY <1>4, <2>1, <2>3, <2>9, <3>1, <3>2
    <2> QED  BY <2>7, <2>8, <2>10, <2>11, <2>12 DEF TokInv
  <1>14. CASE TokKill
    <2>1. /\ tokPc # "down" /\ tokPc' = "down" /\ todo' = {} /\ status' = <<>>
          /\ cutShort' = cutShort \cup
               (IF tokPc \in {"log", "mark"} /\ files[cur.id] # NoFile THEN {cur.id} ELSE {})
          /\ total' = total /\ rps' = rps /\ manifest' = manifest /\ files' = files
          /\ cur' = cur /\ given' = given
      BY <1>14 DEF TokKill
    <2>2. failedLog' \in Log /\ failedLog.rows \subseteq failedLog'.rows
      <3>1. \/ failedLog' = failedLog
            \/ \E k \in cur.bad, t \in BOOLEAN :
                  failedLog' = [Appended(failedLog, {r \in cur.bad : r <= k}) EXCEPT !.torn = t]
            \/ failedLog' = [failedLog EXCEPT !.torn = TRUE]
        <4> DEFINE left(k, t) ==
                     [Appended(failedLog, {r \in cur.bad : r <= k}) EXCEPT !.torn = t]
                   cutLogs == {left(k, t) : k \in cur.bad \ {Max(cur.bad)}, t \in BOOLEAN}
        <4>1. failedLog' \in {failedLog} \cup
                (IF tokPc = "log" /\ cur.bad # {}
                   THEN cutLogs \cup {[failedLog EXCEPT !.torn = TRUE]} ELSE {})
          BY <1>14 DEF TokKill
        <4>2. ASSUME failedLog' \in cutLogs
              PROVE  \E k \in cur.bad, t \in BOOLEAN : failedLog' = left(k, t)
          <5> HIDE DEF left
          <5> QED  BY <4>2
        <4> HIDE DEF cutLogs
        <4> QED  BY <4>1, <4>2
      <3>2. CASE failedLog' = failedLog
        BY <1>1, <3>2
      <3>3. ASSUME NEW k \in cur.bad, NEW t \in BOOLEAN,
                   failedLog' = [Appended(failedLog, {r \in cur.bad : r <= k}) EXCEPT !.torn = t]
            PROVE  failedLog' \in Log /\ failedLog.rows \subseteq failedLog'.rows
        <4> DEFINE a == Appended(failedLog, {r \in cur.bad : r <= k})
        <4>1. a \in Log /\ failedLog.rows \subseteq a.rows
          BY <1>1, <1>2, AppendedFacts
        <4>2. failedLog' = [a EXCEPT !.torn = t]
          BY <3>3
        <4> HIDE DEF a
        <4> QED  BY <4>1, <4>2 DEF Log
      <3>4. CASE failedLog' = [failedLog EXCEPT !.torn = TRUE]
        BY <1>1, <3>4 DEF Log
      <3> QED  BY <3>1, <3>2, <3>3, <3>4
    <2>3. /\ cutShort' \subseteq Ids /\ cutShort \subseteq cutShort'
          /\ tokPc \in {"log", "mark"} /\ files[cur.id] # NoFile => cur.id \in cutShort'
      BY <1>1, <1>2, <2>1
    <2>4. \A i \in Ids : Done(i)' = Done(i) /\ InFile(i)' = InFile(i)
      BY <1>5, <1>6, <2>1
    <2>5. status' \in Seq(Statuses) /\ todo' \subseteq Ids
      BY <2>1
    <2>6. TokType'
      BY <1>1, <2>1, <2>2, <2>3, <2>5 DEF TokType
    <2>7. ManifestInv' /\ HandInv'
      BY <1>1, <2>1 DEF ManifestInv, HandInv, InHand
    <2>8. FileInv'
      BY <1>1, <2>1, <2>3, <2>4 DEF FileInv
    <2>9. KeptInv'
      BY <1>4, <2>1, <2>2, <2>3, <2>4
    <2> QED  BY <2>6, <2>7, <2>8, <2>9 DEF TokInv
  <1> QED  BY <1>7, <1>8, <1>9, <1>10, <1>11, <1>12, <1>13, <1>14 DEF TokStep, TokWork

(* The directory begins empty.                                               *)
LEMMA TokBegins ==
  ASSUME TokInit
  PROVE  TokInv
  <1>1. /\ total = FirstRows /\ rps \in Sizes /\ manifest = NoFile
        /\ files = [s \in Ids |-> NoFile] /\ failedLog = [rows |-> {}, torn |-> FALSE]
        /\ tokPc = "down" /\ status = <<>> /\ todo = {} /\ cur = NoResult
        /\ given = [s \in Ids |-> {}] /\ cutShort = {}
    BY DEF TokInit
  <1>2. total \in 1 .. MaxRows
    BY <1>1, TokenizeAssumption
  <1>3. cur \in [id : Ids, ok : SUBSET Rows, bad : SUBSET Rows]
    BY <1>1, TokConstants DEF NoResult
  <1>4. failedLog \in Log /\ status \in Seq(Statuses) /\ given \in [Ids -> SUBSET Rows]
    BY <1>1 DEF Log
  <1>5. TokType
    <2>1. files \in [Ids -> (SUBSET Rows) \cup {NoFile}]
      BY <1>1
    <2>2. /\ rps \in Sizes /\ manifest \in Manifests \cup {NoFile} /\ todo \subseteq Ids
          /\ tokPc \in {"down", "next", "write", "log", "mark"} /\ cutShort \subseteq Ids
      BY <1>1
    <2> QED  BY <1>2, <1>3, <1>4, <2>1, <2>2 DEF TokType
  <1>6. ManifestInv /\ HandInv /\ FileInv /\ KeptInv
    BY <1>1 DEF ManifestInv, HandInv, InHand, FileInv, KeptInv, Done
  <1> QED  BY <1>5, <1>6 DEF TokInv

(* The accounting is of the tokenizer's variables alone.                     *)
LEMMA TokStutters ==
  ASSUME TokInv, UNCHANGED tokVars
  PROVE  TokInv'
  <1>1. /\ total' = total /\ rps' = rps /\ manifest' = manifest /\ files' = files
        /\ failedLog' = failedLog /\ tokPc' = tokPc /\ status' = status /\ todo' = todo
        /\ cur' = cur /\ given' = given /\ cutShort' = cutShort
    BY DEF tokVars
  <1>2. TokType'
    BY <1>1 DEF TokInv, TokType
  <1>3. ManifestInv' /\ HandInv' /\ FileInv' /\ KeptInv'
    BY <1>1 DEF TokInv, ManifestInv, HandInv, InHand, FileInv, KeptInv, InFile, Done
  <1> QED  BY <1>2, <1>3 DEF TokInv

(* Every row is accounted for: the invariant is inductive.                   *)
THEOREM TokInductive == DataSpec => []TokInv
  <1>1. PipelineInit => TokInv
    BY TokBegins DEF PipelineInit
  <1>2. TokInv /\ [PipelineNext]_pipelineVars => TokInv'
    BY TokStepKeeps, TokStutters DEF PipelineNext, pipelineVars
  <1> QED  BY <1>1, <1>2, PTL DEF DataSpec

(* A finished shard's rows are in its file or in the log of failures, for any  *)
(* source, size of shards and number of runs.                                *)
THEOREM TokKeepsRows == DataSpec => []RowsKept
  <1>1. TokInv => RowsKept
    BY DEF TokInv, KeptInv, RowsKept, InFile
  <1> QED  BY <1>1, TokInductive, PTL

-----------------------------------------------------------------------------
(* The compilation of what was tokenized.                                  *)

(* A row is only ever submitted with, and written to, the shard its        *)
(* position gives, and every run cuts the source by the manifest's size.   *)
OwnerInv ==
    /\ manifest = NoFile => \A id \in Ids : given[id] = {} /\ files[id] = NoFile
    /\ manifest # NoFile =>
         \A id \in Ids : \A r \in given[id] \cup InFile(id) : (r - 1) \div manifest.size = id

Marks == {"pending", "failed", "done"}
Pairs == SUBSET (Ids \X Rows)

CompType ==
    /\ entries # NoFile => /\ DOMAIN entries \subseteq C!Present
                           /\ entries \in [DOMAIN entries -> Marks]
    /\ temp \in [there : BOOLEAN, parts : [Splits -> [Ids -> (SUBSET Rows) \cup {NoFile}]]]
    /\ rejects \in [Ids -> SUBSET Rows]
    /\ out \in [Splits -> [Ids -> Pairs \cup {NoFile}]]
    /\ cPc \in {"down", "pool", "clear", "rewrite", "rmtree"}
    /\ results \in [DOMAIN results -> {"run", "ok", "raised"}]
    /\ unwritten \in [DOMAIN results -> SUBSET Splits]
    /\ splitsLeft \subseteq Splits
    /\ sameInput \in BOOLEAN /\ tempRemains \in BOOLEAN

(* Where the command is: workers are out only while the pool runs, on      *)
(* shards that are not done, and the finalization runs when all are.       *)
DriveInv ==
    /\ cPc # "pool" => DOMAIN results = {}
    /\ cPc # "down" => entries # NoFile
    /\ \A n \in DOMAIN results : n \in DOMAIN entries /\ entries[n] # "done"
    /\ cPc \in {"clear", "rewrite", "rmtree"} => C!AllDone(entries) /\ temp.there
    /\ \A sp \in Splits, i \in Ids : temp.parts[sp][i] # NoFile => temp.there
    /\ entries = NoFile =>
         \A sp \in Splits, i \in Ids : temp.parts[sp][i] = NoFile /\ out[sp][i] = NoFile

(* The part of a shard in a split, and the number it is stored under.      *)
Place(n) == C!IdOf(n, DOMAIN entries)
PartOf(n, sp) == {r \in files[n] \ Rejected : SplitOf[r] = sp}

(* A part is of the shard that is stored under its number, whole.          *)
PartsInv ==
    \A sp \in Splits, i \in Ids : temp.parts[sp][i] # NoFile =>
        \E n \in DOMAIN entries : i = Place(n) /\ temp.parts[sp][i] = PartOf(n, sp)

(* So are the rows of the output, and none is in two of its shards.        *)
IsFrom(x, sp, n) == x[1] = Place(n) /\ x[2] \in PartOf(n, sp)
OutInv ==
    \A sp \in Splits, k \in Ids : out[sp][k] # NoFile =>
        /\ \A x \in out[sp][k] : \E n \in DOMAIN entries : IsFrom(x, sp, n)
        /\ \A l \in Ids : \A x \in out[sp][k] : out[sp][l] # NoFile /\ x \in out[sp][l] => l = k

(* A shard whose worker came back has its rejected rows written, and its   *)
(* parts until the output is whole.                                        *)
Compiled(n) == entries[n] = "done" \/ (n \in DOMAIN results /\ results[n] = "ok")
HasParts(n, S) == \A sp \in S : temp.parts[sp][Place(n)] # NoFile
PartsHere == \A n \in DOMAIN entries : Compiled(n) => HasParts(n, C!SplitsOf(n))
InOut(n, r) ==
    \E k \in Ids : out[SplitOf[r]][k] # NoFile /\ <<Place(n), r>> \in out[SplitOf[r]][k]
OutWhole == \A n \in DOMAIN entries : \A r \in files[n] \ Rejected : InOut(n, r)
AtRest == cPc = "down" /\ C!AllDone(entries) /\ ~temp.there

RejectsInv ==
    \A n \in DOMAIN entries : Compiled(n) => files[n] \cap Rejected \subseteq rejects[Place(n)]
WorkersInv ==
    \A n \in DOMAIN results : results[n] = "run" => HasParts(n, C!SplitsOf(n) \ unwritten[n])
RewriteInv ==
    /\ cPc = "rmtree" => OutWhole
    /\ cPc = "rewrite" =>
         \A sp \in C!SplitsWithParts \ splitsLeft : out[sp] = C!Sliced(C!Table(sp))
CompiledInv ==
    RejectsInv /\ WorkersInv /\ RewriteInv /\ (PartsHere \/ (AtRest /\ OutWhole))

(* All of this is promised while the shards are those the first run saw.   *)
CompInv ==
    /\ sameInput /\ entries # NoFile => PartsInv /\ OutInv
    /\ sameInput /\ entries # NoFile /\ ~tempRemains => CompiledInv

DataInv == TokInv /\ OwnerInv /\ CompType /\ DriveInv /\ CompInv

(* What the constants are.                                                 *)
LEMMA DataConstants ==
  /\ Rejected \subseteq Rows /\ ShardSize \in Nat \ {0}
  /\ SplitOf \in [Rows -> Splits] /\ Length \in [Rows -> Nat]
  /\ \A names \in SUBSET Ids : \A m \in [names -> Marks] : m # NoFile
  /\ \A S \in Pairs : S # NoFile
  /\ \A S \in SUBSET Rows : S # NoFile
  /\ Ids = 0 .. MaxRows - 1 /\ MaxRows \in Nat \ {0} /\ Ids \subseteq Nat
  <1>1. /\ Rejected \subseteq Rows /\ ShardSize \in Nat \ {0}
        /\ SplitOf \in [Rows -> Splits] /\ Length \in [Rows -> Nat]
    BY CompileAssumption DEF Rows
  <1>2. \A names \in SUBSET Ids : \A m \in [names -> Marks] : m # NoFile
    BY CompileAssumption DEF Marks
  <1>3. \A S \in Pairs : S # NoFile
    BY CompileAssumption DEF Pairs, Rows
  <1>4. /\ \A S \in SUBSET Rows : S # NoFile
        /\ Ids = 0 .. MaxRows - 1 /\ MaxRows \in Nat \ {0} /\ Ids \subseteq Nat
    BY TokConstants
  <1> QED  BY <1>1, <1>2, <1>3, <1>4

(* What a step of the tokenizer keeps: a file that is there stays as it is. *)
LEMMA FilesGrow ==
  ASSUME TokInv, TokStep
  PROVE  \A n \in Ids : files[n] # NoFile => files'[n] = files[n]
  <1>1. files \in [Ids -> (SUBSET Rows) \cup {NoFile}] /\ cur.id \in Ids
    BY DEF TokInv, TokType
  <1>2. CASE WriteShard
    BY <1>1, <1>2 DEF WriteShard, AfterWrite
  <1>3. CASE ~WriteShard
    BY <1>1, <1>3
    DEF TokStep, TokWork, SourceGrows, TokStart, TokRaises, TokKill, Receive, LogFailed, MarkDone
  <1> QED  BY <1>2, <1>3

(* A manifest that was written is one.                                     *)
LEMMA ManifestStays ==
  ASSUME TokInv, TokStep, manifest # NoFile
  PROVE  manifest' # NoFile /\ manifest'.size = manifest.size
  <1>1. manifest \in Manifests /\ manifest.shards \in Seq(Statuses) /\ manifest.size \in Sizes
    BY DEF TokInv, TokType, Manifests
  <1>2. CASE TokStart
    <2>1. PICK size \in Sizes :
             IF ~SizeAccepted(size)
               THEN manifest' = manifest
               ELSE manifest' = [size |-> size, shards |-> Synced(size)]
      BY <1>2 DEF TokStart
    <2>2. CASE SizeAccepted(size)
      <3>1. Synced(size) \in Seq(Statuses) /\ Len(Synced(size)) <= MaxRows
        BY <2>2, SyncedFacts DEF TokInv
      <3>2. manifest' \in Manifests /\ manifest'.size = size
        BY <2>1, <2>2, <3>1 DEF Manifests
      <3> QED  BY <2>2, <3>2, TokConstants DEF SizeAccepted
    <2>3. CASE ~SizeAccepted(size)
      BY <2>1, <2>3
    <2> QED  BY <2>2, <2>3
  <1>3. CASE MarkDone
    <2>1. manifest.size = rps /\ manifest.shards = status /\ Len(status) <= MaxRows
      BY <1>1, <1>3 DEF MarkDone, TokInv, ManifestInv, Manifests
    <2> DEFINE c == cur.id
               s == [status EXCEPT ![c + 1] = "done"]
    <2>2. manifest' = [size |-> rps, shards |-> s] /\ c + 1 \in DOMAIN status
      BY <1>3 DEF MarkDone, TokInv, HandInv, InHand
    <2> HIDE DEF c
    <2>3. s \in Seq(Statuses) /\ Len(s) <= MaxRows
      BY <1>1, <2>1, <2>2 DEF Statuses
    <2> HIDE DEF s
    <2>4. manifest' \in Manifests /\ manifest'.size = rps
      BY <1>1, <2>1, <2>2, <2>3 DEF Manifests
    <2> QED  BY <2>1, <2>4, TokConstants
  <1>4. CASE ~TokStart /\ ~MarkDone
    <2>1. manifest' = manifest
      BY <1>4
      DEF TokStep, TokWork, SourceGrows, TokRaises, TokKill, Receive, WriteShard, LogFailed
    <2> QED  BY <2>1
  <1> QED  BY <1>2, <1>3, <1>4

(* Shards keep apart as they are submitted and written.                    *)
LEMMA OwnerKeeps ==
  ASSUME TokInv, OwnerInv, TokStep
  PROVE  OwnerInv'
  <1>1. /\ files \in [Ids -> (SUBSET Rows) \cup {NoFile}] /\ given \in [Ids -> SUBSET Rows]
        /\ cur.id \in Ids
    BY DEF TokInv, TokType
  <1>2. CASE TokStart
    <2>1. PICK size \in Sizes :
             IF ~SizeAccepted(size)
               THEN manifest' = manifest /\ given' = given
               ELSE /\ manifest' = [size |-> size, shards |-> Synced(size)]
                    /\ \E p : given' = [i \in Ids |-> IF i \in p THEN ShardRows(i, total, size)
                                                                 ELSE given[i]]
      BY <1>2 DEF TokStart
    <2>2. files' = files
      BY <1>2 DEF TokStart
    <2>3. CASE ~SizeAccepted(size)
      BY <2>1, <2>2, <2>3 DEF OwnerInv, InFile
    <2>4. CASE SizeAccepted(size)
      <3>1. PICK p : given' = [i \in Ids |-> IF i \in p THEN ShardRows(i, total, size)
                                                        ELSE given[i]]
        BY <2>1, <2>4
      <3>2. manifest' # NoFile /\ manifest'.size = size
        <4>1. Synced(size) \in Seq(Statuses) /\ Len(Synced(size)) <= MaxRows
          BY <2>4, SyncedFacts DEF TokInv
        <4>2. manifest' = [size |-> size, shards |-> Synced(size)]
          BY <2>1, <2>4
        <4>3. manifest' \in Manifests /\ manifest'.size = size
          BY <4>1, <4>2 DEF Manifests
        <4> QED  BY <4>3, TokConstants
      <3>3. ASSUME NEW id \in Ids, NEW r \in given'[id] \cup InFile(id)'
            PROVE  (r - 1) \div size = id
        <4>1. InFile(id)' = InFile(id)
          BY <2>2 DEF InFile
        <4>2. manifest # NoFile => manifest.size = size
          BY <2>4 DEF SizeAccepted
        <4>3. CASE r \in given[id] \cup InFile(id)
          BY <4>2, <4>3 DEF OwnerInv, InFile
        <4>4. CASE r \in ShardRows(id, total, size)
          BY <4>4 DEF ShardRows
        <4> QED  BY <3>1, <3>3, <4>1, <4>3, <4>4
      <3> QED  BY <3>2, <3>3 DEF OwnerInv
    <2> QED  BY <2>3, <2>4
  <1>3. CASE WriteShard
    <2>1. /\ manifest' = manifest /\ given' = given
          /\ files' = AfterWrite(cur.id, cur.ok) /\ tokPc = "write"
      BY <1>3 DEF WriteShard
    <2>2. manifest # NoFile /\ cur.ok \subseteq given[cur.id]
      BY <2>1 DEF TokInv, ManifestInv, HandInv, InHand
    <2>3. \A id \in Ids : InFile(id)' \subseteq InFile(id) \cup given[id]
      BY <1>1, <2>1, <2>2 DEF InFile, AfterWrite
    <2> QED  BY <2>1, <2>2, <2>3 DEF OwnerInv
  <1>4. CASE ~TokStart /\ ~WriteShard
    <2>1. files' = files /\ given' = given
      BY <1>4
      DEF TokStep, TokWork, SourceGrows, TokRaises, TokKill, Receive, LogFailed, MarkDone
    <2>2. CASE manifest = NoFile
      <3>1. tokPc = "down"
        BY <2>2 DEF TokInv, ManifestInv
      <3>2. manifest' = manifest
        BY <1>4, <3>1
        DEF TokStep, TokWork, SourceGrows, TokRaises, TokKill, Receive, LogFailed, MarkDone
      <3> QED  BY <2>1, <2>2, <3>2 DEF OwnerInv
    <2>3. CASE manifest # NoFile
      <3>1. manifest' # NoFile /\ manifest'.size = manifest.size
        BY <2>3, ManifestStays
      <3> QED  BY <2>1, <2>3, <3>1 DEF OwnerInv, InFile
    <2> QED  BY <2>2, <2>3
  <1> QED  BY <1>2, <1>3, <1>4

(* No row is in two files.                                                 *)
LEMMA FilesApart ==
  ASSUME TokInv, OwnerInv
  PROVE  \A m, n \in Ids : \A r : files[m] # NoFile /\ files[n] # NoFile
            /\ r \in files[m] /\ r \in files[n] => m = n
  BY DEF OwnerInv, InFile

(* The numbers of the shards are places, and no two shards have the same.  *)
LEMMA PlaceFacts ==
  ASSUME NEW names \in SUBSET Ids
  PROVE  /\ \A n \in names : C!IdOf(n, names) \in Ids
         /\ \A m, n \in names : C!IdOf(m, names) = C!IdOf(n, names) => m = n
  <1> DEFINE before(n) == {m \in names : m < n}
  <1>1. Ids = 0 .. MaxRows - 1 /\ MaxRows \in Nat \ {0} /\ names \subseteq Nat
    BY DataConstants
  <1>2. \A n \in names : C!IdOf(n, names) = Cardinality(before(n))
    BY DEF C!IdOf, C!Cardinality, Cardinality
  <1>3. ASSUME NEW n \in names
        PROVE  /\ IsFiniteSet(before(n)) /\ Cardinality(before(n)) \in Nat
               /\ Cardinality(before(n)) <= n
    <2>1. n \in Nat /\ 0 \in Int /\ n - 1 \in Int
      BY <1>1
    <2>2. /\ IsFiniteSet(0 .. n - 1)
          /\ Cardinality(0 .. n - 1) = IF 0 > n - 1 THEN 0 ELSE (n - 1) - 0 + 1
      BY <2>1, FS_Interval
    <2>3. Cardinality(0 .. n - 1) = n
      BY <2>1, <2>2
    <2>4. before(n) \subseteq 0 .. n - 1
      <3>1. \A k \in before(n) : k \in Nat /\ k < n
        BY <1>1
      <3>2. \A k : k \in Nat /\ k < n => k \in 0 .. n - 1
        BY <2>1
      <3> HIDE DEF before
      <3> QED  BY <3>1, <3>2
    <2>5. IsFiniteSet(before(n)) /\ Cardinality(before(n)) <= Cardinality(0 .. n - 1)
      BY <2>2, <2>4, FS_Subset
    <2>6. Cardinality(before(n)) \in Nat
      BY <2>5, FS_CardinalityType
    <2> QED  BY <2>3, <2>5, <2>6
  <1>4. ASSUME NEW n \in names PROVE C!IdOf(n, names) \in Ids
    <2>1. n \in 0 .. MaxRows - 1
      BY <1>1
    <2> HIDE DEF before
    <2>2. Cardinality(before(n)) \in Nat /\ Cardinality(before(n)) <= n
      BY <1>3
    <2> QED  BY <1>1, <1>2, <2>1, <2>2
  <1>5. ASSUME NEW m \in names, NEW n \in names, m < n
        PROVE  Cardinality(before(m)) < Cardinality(before(n))
    <2>1. before(m) \subseteq before(n) \ {m} /\ m \in before(n)
      <3>1. m \in Nat /\ n \in Nat /\ \A k \in names : k \in Nat
        BY <1>1
      <3>2. \A k \in before(m) : k \in names /\ k < n /\ k # m
        BY <1>5, <3>1
      <3> QED  BY <1>5, <3>2
    <2> HIDE DEF before
    <2>2. /\ IsFiniteSet(before(n)) /\ Cardinality(before(n)) \in Nat
          /\ Cardinality(before(m)) \in Nat
      BY <1>3
    <2>3. /\ IsFiniteSet(before(n) \ {m})
          /\ Cardinality(before(n) \ {m}) = Cardinality(before(n)) - 1
      BY <2>1, <2>2, FS_RemoveElement
    <2>4. Cardinality(before(m)) <= Cardinality(before(n) \ {m})
      BY <2>1, <2>3, FS_Subset
    <2> QED  BY <2>2, <2>3, <2>4
  <1>6. ASSUME NEW m \in names, NEW n \in names, C!IdOf(m, names) = C!IdOf(n, names)
        PROVE  m = n
    <2>1. m \in Nat /\ n \in Nat
      BY <1>1
    <2>2. Cardinality(before(m)) = Cardinality(before(n))
      BY <1>2, <1>6
    <2> HIDE DEF before
    <2>3. /\ Cardinality(before(m)) \in Nat /\ Cardinality(before(n)) \in Nat
          /\ m < n => Cardinality(before(m)) < Cardinality(before(n))
          /\ n < m => Cardinality(before(n)) < Cardinality(before(m))
      BY <1>3, <1>5
    <2> QED  BY <2>1, <2>2, <2>3
  <1> QED  BY <1>4, <1>6

(* A table cut into shards: each shard is of the table, and when no row is *)
(* in the table twice, a shard of its own for every entry.                 *)
OneOfEach(T) == \A x, y \in T : x[2] = y[2] => x = y
InShard(x, shard) == shard # NoFile /\ x \in shard

(* Cutting such a table leaves no row in two shards.                        *)
LEMMA SlicedFacts ==
  ASSUME NEW T \in Pairs
  PROVE  /\ C!Sliced(T) \in [Ids -> Pairs \cup {NoFile}]
         /\ \A k \in Ids : C!Sliced(T)[k] # NoFile => C!Sliced(T)[k] \subseteq T
         /\ \A k, l \in Ids : \A x :
               InShard(x, C!Sliced(T)[k]) /\ InShard(x, C!Sliced(T)[l]) => k = l
         /\ OneOfEach(T) => \A x \in T : \E k \in Ids : InShard(x, C!Sliced(T)[k])
  <1> DEFINE earlier(x) == {y \in T : C!Before(y, x)}
             at(x) == Cardinality(earlier(x)) \div ShardSize
             slice(k) == {x \in T : at(x) = k}
  <1>1. \A k \in Ids : C!Sliced(T)[k] = IF slice(k) = {} THEN NoFile ELSE slice(k)
    BY DEF C!Sliced, C!Cardinality, Cardinality
  <1>2. C!Sliced(T) = [k \in Ids |-> IF slice(k) = {} THEN NoFile ELSE slice(k)]
    BY DEF C!Sliced, C!Cardinality, Cardinality
  <1>3. \A k : slice(k) \in Pairs /\ slice(k) \subseteq T
    BY DEF Pairs
  <1>4. \A S \in Pairs : S # NoFile
    BY DataConstants
  <1>5. ASSUME OneOfEach(T), NEW x \in T PROVE at(x) \in Ids
    <2>1. /\ x[2] \in Rows /\ MaxRows \in Nat \ {0} /\ ShardSize \in Nat \ {0}
          /\ Length \in [Rows -> Nat] /\ Rows = 1 .. MaxRows /\ Ids = 0 .. MaxRows - 1
      BY <1>5, DataConstants DEF Pairs, Rows
    <2>2. x \notin earlier(x)
      <3>1. Length[x[2]] \in Nat /\ x[2] \in Nat /\ x[1] \in Nat
        BY <1>5, <2>1, DataConstants DEF Pairs
      <3>2. ~C!Before(x, x)
        BY <3>1 DEF C!Before
      <3> QED  BY <3>2
    <2> DEFINE f == [y \in earlier(x) |-> y[2]]
               R == Rows \ {x[2]}
    <2>3. f \in Injection(earlier(x), R)
      <3>1. \A y \in earlier(x) : y \in T /\ y[2] \in Rows /\ y # x
        BY <2>2 DEF Pairs
      <3>2. \A y \in earlier(x) : y[2] # x[2]
        BY <1>5, <3>1 DEF OneOfEach
      <3>3. f \in [earlier(x) -> R]
        BY <3>1, <3>2
      <3>4. \A y, z \in earlier(x) : f[y] = f[z] => y = z
        BY <1>5, <3>1 DEF OneOfEach
      <3> QED  BY <3>3, <3>4 DEF Injection, IsInjective
    <2>4. IsFiniteSet(R) /\ Cardinality(R) = MaxRows - 1
      <3>1. IsFiniteSet(Rows) /\ Cardinality(Rows) = MaxRows
        <4>1. 1 \in Int /\ MaxRows \in Int
          BY <2>1
        <4>2. /\ IsFiniteSet(1 .. MaxRows)
              /\ Cardinality(1 .. MaxRows) = IF 1 > MaxRows THEN 0 ELSE MaxRows - 1 + 1
          BY <4>1, FS_Interval
        <4> QED  BY <2>1, <4>2
      <3>2. Cardinality(Rows \ {x[2]}) = Cardinality(Rows) - 1 /\ IsFiniteSet(Rows \ {x[2]})
        BY <2>1, <3>1, FS_RemoveElement
      <3> QED  BY <3>1, <3>2
    <2> HIDE DEF f, R, earlier
    <2>5. IsFiniteSet(earlier(x)) /\ Cardinality(earlier(x)) <= Cardinality(R)
      BY <2>3, <2>4, FS_Injection
    <2>6. Cardinality(earlier(x)) \in Nat /\ Cardinality(earlier(x)) <= MaxRows - 1
      BY <2>4, <2>5, FS_CardinalityType
    <2>7. \A c \in 0 .. MaxRows - 1 : c \div ShardSize \in 0 .. MaxRows - 1
      <3> TAKE c \in 0 .. MaxRows - 1
      <3>1. c \div ShardSize \in Nat /\ c \div ShardSize <= c
        BY <2>1
      <3> QED  BY <2>1, <3>1
    <2>8. Cardinality(earlier(x)) \in 0 .. MaxRows - 1
      BY <2>1, <2>6
    <2> QED  BY <2>1, <2>7, <2>8
  <1> HIDE DEF at
  <1>6. C!Sliced(T) \in [Ids -> Pairs \cup {NoFile}]
    BY <1>2, <1>3
  <1>7. \A k \in Ids : C!Sliced(T)[k] # NoFile => C!Sliced(T)[k] = slice(k)
    BY <1>1
  <1>8. ASSUME OneOfEach(T), NEW x \in T
        PROVE  \E k \in Ids : C!Sliced(T)[k] # NoFile /\ x \in C!Sliced(T)[k]
    <2>1. at(x) \in Ids /\ x \in slice(at(x))
      BY <1>5, <1>8
    <2>2. C!Sliced(T)[at(x)] = slice(at(x)) /\ slice(at(x)) # NoFile
      BY <1>1, <1>3, <1>4, <2>1
    <2> QED  BY <2>1, <2>2
  <1>9. \A k, l \in Ids : \A x : x \in slice(k) /\ x \in slice(l) => k = l
    OBVIOUS
  <1> HIDE DEF slice
  <1>10. \A k \in Ids : C!Sliced(T)[k] # NoFile => C!Sliced(T)[k] \subseteq T
    BY <1>3, <1>7
  <1>11. \A k, l \in Ids : \A x :
            InShard(x, C!Sliced(T)[k]) /\ InShard(x, C!Sliced(T)[l]) => k = l
    BY <1>7, <1>9 DEF InShard
  <1>12. OneOfEach(T) => \A x \in T : \E k \in Ids : InShard(x, C!Sliced(T)[k])
    BY <1>8 DEF InShard
  <1> HIDE DEF OneOfEach
  <1> QED  BY <1>6, <1>10, <1>11, <1>12, Zenon

(* The table of a split: the rows of its parts, each once.                 *)
LEMMA TableFacts ==
  ASSUME CompType, NEW sp \in Splits
  PROVE  /\ C!Table(sp) \in Pairs
         /\ \A i \in Ids : temp.parts[sp][i] # NoFile =>
              \A r \in temp.parts[sp][i] : <<i, r>> \in C!Table(sp)
         /\ \A x \in C!Table(sp) : \E i \in Ids : temp.parts[sp][i] # NoFile
              /\ x[1] = i /\ x[2] \in temp.parts[sp][i] /\ x = <<x[1], x[2]>>
  <1>1. temp.parts[sp] \in [Ids -> (SUBSET Rows) \cup {NoFile}]
    BY DEF CompType
  <1>2. ASSUME NEW x
        PROVE  x \in C!Table(sp) <=> \E i \in Ids : temp.parts[sp][i] # NoFile
                                        /\ \E r \in temp.parts[sp][i] : x = <<i, r>>
    BY DEF C!Table
  <1>3. ASSUME NEW x \in C!Table(sp)
        PROVE  \E i \in Ids : temp.parts[sp][i] # NoFile /\ i \in Ids
                 /\ x[1] = i /\ x[2] \in temp.parts[sp][i] /\ x = <<x[1], x[2]>>
                 /\ x \in Ids \X Rows
    <2>1. PICK i \in Ids : temp.parts[sp][i] # NoFile
                           /\ \E r \in temp.parts[sp][i] : x = <<i, r>>
      BY <1>2, <1>3
    <2>2. PICK r \in temp.parts[sp][i] : x = <<i, r>>
      BY <2>1
    <2>3. r \in Rows
      BY <1>1, <2>1
    <2> QED  BY <2>1, <2>2, <2>3
  <1>4. C!Table(sp) \in Pairs
    BY <1>3 DEF Pairs
  <1>5. \A i \in Ids : temp.parts[sp][i] # NoFile =>
           \A r \in temp.parts[sp][i] : <<i, r>> \in C!Table(sp)
    BY <1>2
  <1> QED  BY <1>3, <1>4, <1>5

(* In every state: names are numbers of shards that are there, and a set   *)
(* of rows or a map of marks is a file.                                    *)
LEMMA CompFacts ==
  ASSUME CompType
  PROVE  /\ temp.there \in BOOLEAN
         /\ \A sp \in Splits, i \in Ids : temp.parts[sp][i] \in (SUBSET Rows) \cup {NoFile}
         /\ \A sp \in Splits, k \in Ids : out[sp][k] \in Pairs \cup {NoFile}
         /\ entries # NoFile =>
              /\ DOMAIN entries \subseteq Ids
              /\ \A n \in DOMAIN entries : Place(n) \in Ids /\ files[n] # NoFile
              /\ \A m, n \in DOMAIN entries : Place(m) = Place(n) => m = n
  <1>1. /\ temp.there \in BOOLEAN
        /\ temp.parts \in [Splits -> [Ids -> (SUBSET Rows) \cup {NoFile}]]
        /\ out \in [Splits -> [Ids -> Pairs \cup {NoFile}]]
    BY DEF CompType
  <1>2. ASSUME entries # NoFile
        PROVE  /\ DOMAIN entries \subseteq Ids
               /\ \A n \in DOMAIN entries : Place(n) \in Ids /\ files[n] # NoFile
               /\ \A m, n \in DOMAIN entries : Place(m) = Place(n) => m = n
    <2>1. DOMAIN entries \in SUBSET Ids /\ \A n \in DOMAIN entries : files[n] # NoFile
      BY <1>2 DEF CompType, C!Present
    <2>2. /\ \A n \in DOMAIN entries : Place(n) \in Ids
          /\ \A m, n \in DOMAIN entries : Place(m) = Place(n) => m = n
      BY <2>1, PlaceFacts DEF Place
    <2> QED  BY <2>1, <2>2
  <1> QED  BY <1>1, <1>2

(* The splits of a shard's rows are splits.                                *)
LEMMA SplitsFacts ==
  ASSUME TokInv, CompType, entries # NoFile, NEW n \in DOMAIN entries
  PROVE  /\ C!SplitsOf(n) \subseteq Splits /\ files[n] \in SUBSET Rows
         /\ \A sp \in C!SplitsOf(n) : PartOf(n, sp) # {}
         /\ \A sp \in Splits : PartOf(n, sp) \in SUBSET Rows /\ PartOf(n, sp) # NoFile
         /\ \A r \in files[n] \ Rejected :
               SplitOf[r] \in C!SplitsOf(n) /\ r \in PartOf(n, SplitOf[r])
  <1>1. files[n] \in SUBSET Rows
    BY CompFacts DEF TokInv, TokType
  <1>2. SplitOf \in [Rows -> Splits] /\ \A S \in SUBSET Rows : S # NoFile
    BY DataConstants
  <1> QED  BY <1>1, <1>2 DEF C!SplitsOf, PartOf

(* No row is in a table twice, as none is in two shards.                   *)
LEMMA TablesApart ==
  ASSUME TokInv, OwnerInv, CompType, PartsInv, entries # NoFile, NEW sp \in Splits
  PROVE  /\ OneOfEach(C!Table(sp))
         /\ \A x \in C!Table(sp) : \E n \in DOMAIN entries : IsFrom(x, sp, n)
  <1>1. /\ DOMAIN entries \subseteq Ids
        /\ \A n \in DOMAIN entries : files[n] # NoFile
    BY CompFacts
  <1>2. \A x \in C!Table(sp) : \E n \in DOMAIN entries : IsFrom(x, sp, n)
    BY TableFacts DEF PartsInv, IsFrom
  <1>3. ASSUME NEW x \in C!Table(sp), NEW y \in C!Table(sp), x[2] = y[2]
        PROVE  x = y
    <2>1. PICK m \in DOMAIN entries : x[1] = Place(m) /\ x[2] \in PartOf(m, sp)
      BY <1>2 DEF IsFrom
    <2>2. PICK n \in DOMAIN entries : y[1] = Place(n) /\ y[2] \in PartOf(n, sp)
      BY <1>2 DEF IsFrom
    <2>3. x[2] \in files[m] /\ x[2] \in files[n] /\ m \in Ids /\ n \in Ids
      BY <1>1, <1>3, <2>1, <2>2 DEF PartOf
    <2>4. m = n
      BY <1>1, <2>3, FilesApart
    <2>5. x = <<x[1], x[2]>> /\ y = <<y[1], y[2]>>
      BY TableFacts
    <2> QED  BY <1>3, <2>1, <2>2, <2>4, <2>5
  <1> QED  BY <1>2, <1>3 DEF OneOfEach

(* When every shard is done and the parts are there, a split whose output  *)
(* is its table, cut, has every row of it.                                 *)
LEMMA SplitWhole ==
  ASSUME TokInv, OwnerInv, CompType, PartsInv, entries # NoFile,
         NEW sp \in Splits, NEW n \in DOMAIN entries, NEW r \in PartOf(n, sp),
         temp.parts[sp][Place(n)] # NoFile
  PROVE  \E k \in Ids : /\ C!Sliced(C!Table(sp))[k] # NoFile
                        /\ <<Place(n), r>> \in C!Sliced(C!Table(sp))[k]
  <1>1. /\ DOMAIN entries \subseteq Ids /\ Place(n) \in Ids
        /\ \A m \in DOMAIN entries : Place(m) = Place(n) => m = n
        /\ \A m \in DOMAIN entries : files[m] # NoFile
    BY CompFacts
  <1>2. temp.parts[sp][Place(n)] = PartOf(n, sp)
    BY <1>1 DEF PartsInv
  <1>3. <<Place(n), r>> \in C!Table(sp) /\ C!Table(sp) \in Pairs
    BY <1>1, <1>2, TableFacts
  <1>4. OneOfEach(C!Table(sp))
    BY TablesApart
  <1> QED  BY <1>3, <1>4, SlicedFacts DEF InShard

(* What says nothing but of the shards that were listed.                   *)
LEMMA SamePlaces ==
  ASSUME DOMAIN entries' = DOMAIN entries, \A n \in DOMAIN entries : files'[n] = files[n]
  PROVE  /\ \A n : Place(n)' = Place(n)
         /\ \A n \in DOMAIN entries : \A sp : PartOf(n, sp)' = PartOf(n, sp)
         /\ \A n \in DOMAIN entries : C!SplitsOf(n)' = C!SplitsOf(n)
         /\ \A n \in DOMAIN entries : \A x, sp : IsFrom(x, sp, n)' = IsFrom(x, sp, n)
  <1>1. \A n : Place(n)' = Place(n)
    BY DEF Place, C!IdOf
  <1>2. \A n \in DOMAIN entries : \A sp : PartOf(n, sp)' = PartOf(n, sp)
    BY DEF PartOf
  <1>3. \A n \in DOMAIN entries : C!SplitsOf(n)' = C!SplitsOf(n)
    BY DEF C!SplitsOf
  <1>4. \A n \in DOMAIN entries : \A x, sp : IsFrom(x, sp, n)' = IsFrom(x, sp, n)
    BY <1>1, <1>2 DEF IsFrom
  <1> QED  BY <1>1, <1>2, <1>3, <1>4

(* Parts may go, and so may shards of the output.                          *)
LEMMA PartsStay ==
  ASSUME PartsInv, DOMAIN entries' = DOMAIN entries,
         \A n \in DOMAIN entries : files'[n] = files[n],
         \A sp \in Splits, i \in Ids : temp'.parts[sp][i] \in {temp.parts[sp][i], NoFile}
  PROVE  PartsInv'
  <1> SUFFICES ASSUME NEW sp \in Splits, NEW i \in Ids, temp'.parts[sp][i] # NoFile
               PROVE  \E n \in DOMAIN entries' : i = Place(n)'
                                                 /\ temp'.parts[sp][i] = PartOf(n, sp)'
    BY DEF PartsInv
  <1>1. temp'.parts[sp][i] = temp.parts[sp][i]
    OBVIOUS
  <1>2. PICK n \in DOMAIN entries : i = Place(n) /\ temp.parts[sp][i] = PartOf(n, sp)
    BY <1>1 DEF PartsInv
  <1>3. Place(n)' = Place(n) /\ PartOf(n, sp)' = PartOf(n, sp)
    BY SamePlaces
  <1> QED  BY <1>1, <1>2, <1>3

(* The output likewise.                                                    *)
LEMMA OutStays ==
  ASSUME OutInv, DOMAIN entries' = DOMAIN entries,
         \A n \in DOMAIN entries : files'[n] = files[n],
         \A sp \in Splits, k \in Ids : out'[sp][k] \in {out[sp][k], NoFile}
  PROVE  OutInv'
  <1> SUFFICES ASSUME NEW sp \in Splits, NEW k \in Ids, out'[sp][k] # NoFile
               PROVE  /\ \A x \in out'[sp][k] : \E n \in DOMAIN entries' : IsFrom(x, sp, n)'
                      /\ \A l \in Ids : \A x \in out'[sp][k] :
                            out'[sp][l] # NoFile /\ x \in out'[sp][l] => l = k
    BY DEF OutInv
  <1>1. \A l \in Ids : out'[sp][l] # NoFile => out'[sp][l] = out[sp][l]
    OBVIOUS
  <1>2. \A x \in out'[sp][k] : \E n \in DOMAIN entries : IsFrom(x, sp, n)
    BY <1>1 DEF OutInv
  <1>3. \A x, n : n \in DOMAIN entries => IsFrom(x, sp, n)' = IsFrom(x, sp, n)
    BY SamePlaces
  <1>4. \A l \in Ids : \A x \in out'[sp][k] :
           out'[sp][l] # NoFile /\ x \in out'[sp][l] => l = k
    BY <1>1 DEF OutInv
  <1> QED  BY <1>2, <1>3, <1>4

(* What is whole stays whole while nothing is taken from it.               *)
LEMMA PartsHereStay ==
  ASSUME TokInv, CompType, entries # NoFile, PartsHere, DOMAIN entries' = DOMAIN entries,
         \A n \in DOMAIN entries : files'[n] = files[n],
         \A sp \in Splits, i \in Ids :
            temp.parts[sp][i] # NoFile => temp'.parts[sp][i] # NoFile,
         \A n \in DOMAIN entries : Compiled(n)' => Compiled(n)
  PROVE  PartsHere'
  <1> SUFFICES ASSUME NEW n \in DOMAIN entries, Compiled(n)'
               PROVE  HasParts(n, C!SplitsOf(n))'
    BY DEF PartsHere
  <1>1. HasParts(n, C!SplitsOf(n))
    BY DEF PartsHere
  <1>2. Place(n)' = Place(n) /\ C!SplitsOf(n)' = C!SplitsOf(n)
    BY SamePlaces
  <1>3. Place(n) \in Ids /\ C!SplitsOf(n) \subseteq Splits
    BY CompFacts, SplitsFacts
  <1> QED  BY <1>1, <1>2, <1>3 DEF HasParts

(* Rejected rows that are written stay.                                    *)
LEMMA RejectsStay ==
  ASSUME CompType, entries # NoFile, RejectsInv, DOMAIN entries' = DOMAIN entries,
         \A n \in DOMAIN entries : files'[n] = files[n],
         \A n \in DOMAIN entries : rejects[Place(n)] \subseteq rejects'[Place(n)],
         \A n \in DOMAIN entries : Compiled(n)' => Compiled(n)
  PROVE  RejectsInv'
  <1>1. \A n : Place(n)' = Place(n)
    BY SamePlaces
  <1> QED  BY <1>1 DEF RejectsInv

(* An output that is whole stays whole when it is left alone.              *)
LEMMA OutWholeStays ==
  ASSUME OutWhole, DOMAIN entries' = DOMAIN entries,
         \A n \in DOMAIN entries : files'[n] = files[n], out' = out
  PROVE  OutWhole'
  <1>1. \A n : Place(n)' = Place(n)
    BY SamePlaces
  <1> QED  BY <1>1 DEF OutWhole, InOut

(* What workers that still run have written stays.                         *)
LEMMA WorkersStay ==
  ASSUME WorkersInv, DriveInv, DOMAIN entries' = DOMAIN entries, temp' = temp,
         \A n \in DOMAIN entries : files'[n] = files[n],
         \A n \in DOMAIN results' : /\ n \in DOMAIN results /\ unwritten'[n] = unwritten[n]
                                    /\ results'[n] = "run" => results[n] = "run"
  PROVE  WorkersInv'
  <1> SUFFICES ASSUME NEW n \in DOMAIN results', results'[n] = "run"
               PROVE  HasParts(n, C!SplitsOf(n) \ unwritten[n])'
    BY DEF WorkersInv
  <1>1. HasParts(n, C!SplitsOf(n) \ unwritten[n]) /\ n \in DOMAIN entries
    BY DEF WorkersInv, DriveInv
  <1>2. Place(n)' = Place(n) /\ C!SplitsOf(n)' = C!SplitsOf(n)
    BY <1>1, SamePlaces
  <1> QED  BY <1>1, <1>2 DEF HasParts

(* While nothing is compiled the data set stays as it is, whatever files   *)
(* the tokenizer adds.                                                     *)
LEMMA CompStutters ==
  ASSUME CompType, TokInv, DriveInv, CompInv,
         \A n \in Ids : files[n] # NoFile => files'[n] = files[n],
         entries' = entries, temp' = temp, rejects' = rejects, out' = out, cPc' = cPc,
         results' = results, unwritten' = unwritten, splitsLeft' = splitsLeft,
         sameInput' = sameInput, tempRemains' = tempRemains
  PROVE  CompType' /\ DriveInv' /\ CompInv'
  <1>1. C!Present \subseteq C!Present' /\ C!AllDone(entries)' = C!AllDone(entries)
        /\ C!SplitsWithParts' = C!SplitsWithParts
    <2>1. \A n \in C!Present : n \in C!Present'
      <3>1. \A n \in C!Present : n \in Ids /\ files'[n] # NoFile
        BY DEF C!Present
      <3> QED  BY <3>1 DEF C!Present
    <2> QED  BY <2>1 DEF C!AllDone, C!SplitsWithParts
  <1>2. CompType'
    <2>1. entries # NoFile => /\ DOMAIN entries \subseteq C!Present'
                              /\ entries \in [DOMAIN entries -> Marks]
      BY <1>1 DEF CompType
    <2> QED  BY <2>1 DEF CompType
  <1>3. DriveInv'
    BY <1>1 DEF DriveInv
  <1>4. entries # NoFile => /\ DOMAIN entries' = DOMAIN entries
                            /\ \A n \in DOMAIN entries : files'[n] = files[n]
    BY DEF CompType, C!Present
  <1>5. ASSUME entries # NoFile, PartsInv, OutInv PROVE PartsInv' /\ OutInv'
    BY <1>4, <1>5, PartsStay, OutStays
  <1>6. ASSUME entries # NoFile, CompiledInv PROVE CompiledInv'
    <2>1. /\ DOMAIN entries' = DOMAIN entries
          /\ \A n \in DOMAIN entries : files'[n] = files[n]
      BY <1>4, <1>6
    <2>2. \A n \in DOMAIN entries : Compiled(n)' => Compiled(n)
      BY DEF Compiled
    <2>3. RejectsInv'
      BY <1>6, <2>1, <2>2, RejectsStay DEF CompiledInv
    <2>4. WorkersInv'
      BY <1>6, <2>1, WorkersStay DEF CompiledInv
    <2>5. OutWhole => OutWhole'
      BY <2>1, OutWholeStays
    <2>6. \A sp : C!Sliced(C!Table(sp))' = C!Sliced(C!Table(sp))
      BY DEF C!Sliced, C!Table, C!Before
    <2>7. RewriteInv'
      BY <1>1, <1>6, <2>5, <2>6 DEF CompiledInv, RewriteInv
    <2>8. PartsHere => PartsHere'
      BY <1>6, <2>1, <2>2, PartsHereStay
    <2>9. AtRest => AtRest'
      BY <1>1 DEF AtRest
    <2> QED  BY <1>6, <2>3, <2>4, <2>5, <2>7, <2>8, <2>9 DEF CompiledInv
  <1>7. CompInv'
    BY <1>5, <1>6 DEF CompInv
  <1> QED  BY <1>2, <1>3, <1>7

(* What a worker writes is the part of its shard.                          *)
LEMMA WriteKeeps ==
  ASSUME DataInv, files' = files, NEW n \in Ids, NEW sp \in Splits, C!WritePart(n, sp)
  PROVE  CompType' /\ DriveInv' /\ CompInv'
  <1>1. /\ n \in DOMAIN results /\ results[n] = "run" /\ sp \in unwritten[n] /\ cPc = "pool"
        /\ entries' = entries /\ rejects' = rejects /\ out' = out /\ cPc' = cPc
        /\ results' = results /\ splitsLeft' = splitsLeft /\ sameInput' = sameInput
        /\ tempRemains' = tempRemains
        /\ unwritten' = [unwritten EXCEPT ![n] = unwritten[n] \ {sp}]
    BY DEF C!WritePart
  <1>2. TokInv /\ OwnerInv /\ CompType /\ DriveInv /\ CompInv
    BY DEF DataInv
  <1>3. /\ entries # NoFile /\ n \in DOMAIN entries /\ Place(n) \in Ids
        /\ PartOf(n, sp) \in SUBSET Rows /\ PartOf(n, sp) # NoFile
    BY <1>1, <1>2, CompFacts, SplitsFacts DEF DriveInv
  <1>4. temp' = [temp EXCEPT !.there = TRUE, !.parts[sp][Place(n)] = PartOf(n, sp)]
    BY DEF C!WritePart, C!PartId, Place, PartOf
  <1>5. /\ temp' \in [there : BOOLEAN, parts : [Splits -> [Ids -> (SUBSET Rows) \cup {NoFile}]]]
        /\ temp'.there = TRUE
        /\ \A q \in Splits, i \in Ids :
              temp'.parts[q][i] = IF q = sp /\ i = Place(n) THEN PartOf(n, sp)
                                                            ELSE temp.parts[q][i]
    BY <1>2, <1>3, <1>4 DEF CompType
  <1>6. CompType'
    <2>1. unwritten' \in [DOMAIN results -> SUBSET Splits]
      BY <1>1, <1>2 DEF CompType
    <2>2. C!Present' = C!Present
      BY DEF C!Present
    <2> QED  BY <1>1, <1>2, <1>5, <2>1, <2>2 DEF CompType
  <1>7. DriveInv'
    BY <1>1, <1>2, <1>3, <1>5 DEF DriveInv
  <1>8. /\ DOMAIN entries' = DOMAIN entries
        /\ \A m \in DOMAIN entries : files'[m] = files[m]
    BY <1>1
  <1>9. ASSUME PartsInv, OutInv PROVE PartsInv' /\ OutInv'
    <2>1. OutInv'
      BY <1>1, <1>8, <1>9, OutStays
    <2>2. ASSUME NEW q \in Splits, NEW i \in Ids, temp'.parts[q][i] # NoFile
          PROVE  \E m \in DOMAIN entries : i = Place(m) /\ temp'.parts[q][i] = PartOf(m, q)
      BY <1>3, <1>5, <1>9, <2>2 DEF PartsInv
    <2>3. \A m \in DOMAIN entries : \A q : Place(m)' = Place(m) /\ PartOf(m, q)' = PartOf(m, q)
      BY <1>8, SamePlaces
    <2>4. PartsInv'
      BY <1>8, <2>2, <2>3 DEF PartsInv
    <2> QED  BY <2>1, <2>4
  <1>10. ASSUME CompiledInv PROVE CompiledInv'
    <2>1. \A m \in DOMAIN entries : Compiled(m)' => Compiled(m)
      BY <1>1 DEF Compiled
    <2>2. \A q \in Splits, i \in Ids : temp.parts[q][i] # NoFile => temp'.parts[q][i] # NoFile
      BY <1>3, <1>5
    <2>3. PartsHere'
      <3>1. PartsHere
        BY <1>1, <1>10 DEF CompiledInv, AtRest
      <3> QED  BY <1>2, <1>3, <1>8, <2>1, <2>2, <3>1, PartsHereStay
    <2>4. RejectsInv'
      <3>1. RejectsInv /\ \A m \in DOMAIN entries : rejects[Place(m)] \subseteq rejects'[Place(m)]
        BY <1>1, <1>10 DEF CompiledInv
      <3> QED  BY <1>2, <1>3, <1>8, <2>1, <3>1, RejectsStay
    <2>5. WorkersInv'
      <3> SUFFICES ASSUME NEW m \in DOMAIN results, results[m] = "run"
                   PROVE  HasParts(m, C!SplitsOf(m) \ unwritten[m])'
        BY <1>1 DEF WorkersInv
      <3>1. m \in DOMAIN entries /\ Place(m) \in Ids /\ C!SplitsOf(m) \subseteq Splits
        BY <1>2, <1>3, CompFacts, SplitsFacts DEF DriveInv
      <3>2. Place(m)' = Place(m) /\ C!SplitsOf(m)' = C!SplitsOf(m)
        BY <1>8, <3>1, SamePlaces
      <3>3. HasParts(m, C!SplitsOf(m) \ unwritten[m])
        BY <1>10 DEF CompiledInv, WorkersInv
      <3>4. \A q \in C!SplitsOf(m) \ unwritten'[m] :
               q \in C!SplitsOf(m) \ unwritten[m] \/ (q = sp /\ m = n)
        BY <1>1, <1>2 DEF CompType
      <3> QED  BY <1>3, <1>5, <2>2, <3>1, <3>2, <3>3, <3>4 DEF HasParts
    <2>6. RewriteInv'
      BY <1>1 DEF RewriteInv
    <2> QED  BY <2>3, <2>4, <2>5, <2>6 DEF CompiledInv
  <1>11. CompInv'
    BY <1>1, <1>2, <1>9, <1>10 DEF CompInv
  <1> QED  BY <1>6, <1>7, <1>11

(* A worker that returns has written all of its shard.                     *)
LEMMA ReturnKeeps ==
  ASSUME DataInv, files' = files, NEW n \in Ids, C!WorkerReturns(n)
  PROVE  CompType' /\ DriveInv' /\ CompInv'
  <1>1. /\ n \in DOMAIN results /\ results[n] = "run" /\ unwritten[n] = {} /\ cPc = "pool"
        /\ entries' = entries /\ temp' = temp /\ out' = out /\ cPc' = cPc
        /\ unwritten' = unwritten /\ splitsLeft' = splitsLeft /\ sameInput' = sameInput
        /\ tempRemains' = tempRemains
        /\ results' = [results EXCEPT ![n] = "ok"]
        /\ rejects' = IF files[n] \cap Rejected = {} THEN rejects
                      ELSE [rejects EXCEPT ![Place(n)] = files[n] \cap Rejected]
    BY DEF C!WorkerReturns, C!PartId, Place
  <1>2. TokInv /\ OwnerInv /\ CompType /\ DriveInv /\ CompInv
    BY DEF DataInv
  <1>3. /\ entries # NoFile /\ n \in DOMAIN entries /\ Place(n) \in Ids
        /\ files[n] \in SUBSET Rows
    BY <1>1, <1>2, CompFacts, SplitsFacts DEF DriveInv
  <1>4. /\ DOMAIN results' = DOMAIN results /\ results'[n] = "ok"
        /\ \A m \in DOMAIN results : m # n => results'[m] = results[m]
        /\ results' \in [DOMAIN results' -> {"run", "ok", "raised"}]
    BY <1>1, <1>2 DEF CompType
  <1>5. /\ rejects' \in [Ids -> SUBSET Rows]
        /\ \A m \in DOMAIN entries : m # n => rejects'[Place(m)] = rejects[Place(m)]
        /\ files[n] \cap Rejected \subseteq rejects'[Place(n)]
    <2>1. \A m \in DOMAIN entries : m # n => Place(m) # Place(n) /\ Place(m) \in Ids
      BY <1>2, <1>3, CompFacts
    <2>2. rejects \in [Ids -> SUBSET Rows]
      BY <1>2 DEF CompType
    <2> QED  BY <1>1, <1>3, <2>1, <2>2
  <1>6. CompType'
    <2>1. C!Present' = C!Present
      BY DEF C!Present
    <2> QED  BY <1>1, <1>2, <1>4, <1>5, <2>1 DEF CompType
  <1>7. DriveInv'
    BY <1>1, <1>2, <1>3, <1>4 DEF DriveInv
  <1>8. /\ DOMAIN entries' = DOMAIN entries
        /\ \A m \in DOMAIN entries : files'[m] = files[m]
    BY <1>1
  <1>9. ASSUME PartsInv, OutInv PROVE PartsInv' /\ OutInv'
    BY <1>1, <1>8, <1>9, OutStays, PartsStay
  <1>10. ASSUME CompiledInv PROVE CompiledInv'
    <2>1. \A m \in DOMAIN entries : Compiled(m)' => Compiled(m) \/ m = n
      BY <1>1, <1>4 DEF Compiled
    <2>2. \A m \in DOMAIN entries : Place(m)' = Place(m) /\ C!SplitsOf(m)' = C!SplitsOf(m)
      BY <1>8, SamePlaces
    <2>3. \A m \in DOMAIN entries : \A S : HasParts(m, S)' = HasParts(m, S)
      BY <1>1, <2>2 DEF HasParts
    <2>4. HasParts(n, C!SplitsOf(n))
      <3>1. HasParts(n, C!SplitsOf(n) \ unwritten[n])
        BY <1>1, <1>10 DEF CompiledInv, WorkersInv
      <3> QED  BY <1>1, <3>1
    <2>5. PartsHere'
      <3>1. PartsHere
        BY <1>1, <1>10 DEF CompiledInv, AtRest
      <3>2. ASSUME NEW m \in DOMAIN entries, Compiled(m)'
            PROVE  HasParts(m, C!SplitsOf(m))
        BY <2>1, <2>4, <3>1, <3>2 DEF PartsHere
      <3>3. ASSUME NEW m \in DOMAIN entries, Compiled(m)'
            PROVE  HasParts(m, C!SplitsOf(m))'
        BY <1>1, <2>2, <3>2, <3>3 DEF HasParts
      <3> QED  BY <1>8, <3>3 DEF PartsHere
    <2>6. RejectsInv'
      <3>1. RejectsInv
        BY <1>10 DEF CompiledInv
      <3> QED  BY <1>1, <1>5, <1>8, <2>1, <2>2, <3>1 DEF RejectsInv
    <2>7. WorkersInv'
      <3> SUFFICES ASSUME NEW m \in DOMAIN results, results'[m] = "run"
                   PROVE  HasParts(m, C!SplitsOf(m) \ unwritten[m])'
        BY <1>4 DEF WorkersInv
      <3>1. m # n /\ results[m] = "run" /\ m \in DOMAIN entries
        BY <1>2, <1>4 DEF DriveInv
      <3>2. HasParts(m, C!SplitsOf(m) \ unwritten[m])
        BY <1>10, <3>1 DEF CompiledInv, WorkersInv
      <3>3. Place(m)' = Place(m) /\ C!SplitsOf(m)' = C!SplitsOf(m)
        BY <2>2, <3>1
      <3> QED  BY <1>1, <3>2, <3>3 DEF HasParts
    <2>8. RewriteInv'
      BY <1>1 DEF RewriteInv
    <2> QED  BY <2>5, <2>6, <2>7, <2>8 DEF CompiledInv
  <1>11. CompInv'
    BY <1>1, <1>2, <1>9, <1>10 DEF CompInv
  <1> QED  BY <1>6, <1>7, <1>11

(* A worker that raises leaves what it wrote, and nothing is said of it.   *)
LEMMA RaiseKeeps ==
  ASSUME DataInv, files' = files, NEW n \in Ids, C!WorkerRaises(n)
  PROVE  CompType' /\ DriveInv' /\ CompInv'
  <1>1. /\ n \in DOMAIN results /\ results[n] = "run" /\ cPc = "pool"
        /\ entries' = entries /\ temp' = temp /\ out' = out /\ cPc' = cPc
        /\ unwritten' = unwritten /\ splitsLeft' = splitsLeft /\ sameInput' = sameInput
        /\ tempRemains' = tempRemains /\ rejects' = rejects
        /\ results' = [results EXCEPT ![n] = "raised"]
    BY DEF C!WorkerRaises
  <1>2. TokInv /\ OwnerInv /\ CompType /\ DriveInv /\ CompInv
    BY DEF DataInv
  <1>3. entries # NoFile /\ n \in DOMAIN entries
    BY <1>1, <1>2 DEF DriveInv
  <1>4. /\ DOMAIN results' = DOMAIN results /\ results'[n] = "raised"
        /\ \A m \in DOMAIN results : m # n => results'[m] = results[m]
        /\ results' \in [DOMAIN results' -> {"run", "ok", "raised"}]
    BY <1>1, <1>2 DEF CompType
  <1>5. /\ DOMAIN entries' = DOMAIN entries
        /\ \A m \in DOMAIN entries : files'[m] = files[m]
    BY <1>1
  <1>6. CompType'
    <2>1. C!Present' = C!Present
      BY DEF C!Present
    <2> QED  BY <1>1, <1>2, <1>4, <2>1 DEF CompType
  <1>7. DriveInv'
    BY <1>1, <1>2, <1>4 DEF DriveInv
  <1>8. ASSUME PartsInv, OutInv PROVE PartsInv' /\ OutInv'
    BY <1>1, <1>5, <1>8, OutStays, PartsStay
  <1>9. ASSUME CompiledInv PROVE CompiledInv'
    <2>1. \A m \in DOMAIN entries : Compiled(m)' => Compiled(m)
      BY <1>1, <1>4 DEF Compiled
    <2>2. PartsHere'
      <3>1. PartsHere
        BY <1>1, <1>9 DEF CompiledInv, AtRest
      <3> QED  BY <1>1, <1>2, <1>3, <1>5, <2>1, <3>1, PartsHereStay
    <2>3. RejectsInv'
      BY <1>1, <1>2, <1>3, <1>5, <1>9, <2>1, RejectsStay DEF CompiledInv
    <2>4. WorkersInv'
      BY <1>1, <1>2, <1>4, <1>5, <1>9, WorkersStay DEF CompiledInv
    <2>5. RewriteInv'
      BY <1>1 DEF RewriteInv
    <2> QED  BY <2>2, <2>3, <2>4, <2>5 DEF CompiledInv
  <1>10. CompInv'
    BY <1>1, <1>2, <1>8, <1>9 DEF CompInv
  <1> QED  BY <1>6, <1>7, <1>10

(* The driver takes what a worker said, and goes on when all are back.     *)
LEMMA CollectKeeps ==
  ASSUME DataInv, files' = files, NEW n \in Ids, C!Collect(n)
  PROVE  CompType' /\ DriveInv' /\ CompInv'
  <1> DEFINE m0 == [entries EXCEPT ![n] = C!StatusAfter(results[n])]
             rest == DOMAIN results \ {n}
  <1>1. /\ n \in DOMAIN results /\ results[n] # "run" /\ cPc = "pool"
        /\ temp' = temp /\ out' = out /\ splitsLeft' = splitsLeft
        /\ sameInput' = sameInput /\ tempRemains' = tempRemains /\ rejects' = rejects
        /\ entries' = m0
        /\ results' = [x \in rest |-> results[x]]
        /\ unwritten' = [x \in rest |-> unwritten[x]]
        /\ cPc' = IF rest # {} THEN "pool" ELSE C!AfterPool(m0, temp.there)
    BY DEF C!Collect
  <1>2. TokInv /\ OwnerInv /\ CompType /\ DriveInv /\ CompInv
    BY DEF DataInv
  <1>3. entries # NoFile /\ n \in DOMAIN entries /\ DOMAIN entries \in SUBSET Ids
    BY <1>1, <1>2, CompFacts DEF DriveInv
  <1>4. /\ entries' \in [DOMAIN entries -> Marks] /\ DOMAIN entries' = DOMAIN entries
        /\ entries' # NoFile /\ entries'[n] = C!StatusAfter(results[n])
        /\ \A m \in DOMAIN entries : m # n => entries'[m] = entries[m]
    <2>1. C!StatusAfter(results[n]) \in Marks
      BY DEF C!StatusAfter, Marks
    <2>2. entries \in [DOMAIN entries -> Marks]
      BY <1>2, <1>3 DEF CompType
    <2>3. m0 \in [DOMAIN entries -> Marks]
      BY <2>1, <2>2
    <2> QED  BY <1>1, <1>3, <2>2, <2>3, DataConstants
  <1>5. /\ DOMAIN results' = rest /\ \A m \in rest : results'[m] = results[m]
        /\ results' \in [DOMAIN results' -> {"run", "ok", "raised"}]
        /\ unwritten' \in [DOMAIN results' -> SUBSET Splits]
        /\ \A m \in rest : unwritten'[m] = unwritten[m]
    BY <1>1, <1>2 DEF CompType
  <1>6. /\ cPc' \in {"pool", "clear", "down"}
        /\ cPc' # "pool" => rest = {}
        /\ cPc' = "clear" => C!AllDone(entries') /\ temp.there
    BY <1>1 DEF C!AfterPool
  <1>7. \A m \in DOMAIN entries : files'[m] = files[m]
    OBVIOUS
  <1>8. CompType'
    <2>1. C!Present' = C!Present
      BY DEF C!Present
    <2> QED  BY <1>1, <1>2, <1>3, <1>4, <1>5, <1>6, <2>1 DEF CompType
  <1> HIDE DEF m0
  <1>9. DriveInv'
    <2>1. C!AllDone(entries') = C!AllDone(entries)'
      BY DEF C!AllDone
    <2>2. \A m \in rest : m \in DOMAIN entries' /\ entries'[m] # "done"
      BY <1>2, <1>4 DEF DriveInv
    <2> QED  BY <1>1, <1>2, <1>4, <1>5, <1>6, <2>1, <2>2 DEF DriveInv
  <1>10. ASSUME PartsInv, OutInv PROVE PartsInv' /\ OutInv'
    BY <1>1, <1>4, <1>7, <1>10, OutStays, PartsStay
  <1>11. ASSUME CompiledInv PROVE CompiledInv'
    <2>1. \A m \in DOMAIN entries : Compiled(m)' => Compiled(m)
      <3>1. entries'[n] = "done" => results[n] = "ok"
        BY <1>4 DEF C!StatusAfter
      <3> QED  BY <1>1, <1>4, <1>5, <3>1 DEF Compiled
    <2>2. PartsHere'
      <3>1. PartsHere
        BY <1>1, <1>11 DEF CompiledInv, AtRest
      <3> QED  BY <1>1, <1>2, <1>3, <1>4, <1>7, <2>1, <3>1, PartsHereStay
    <2>3. RejectsInv'
      BY <1>1, <1>2, <1>3, <1>4, <1>7, <1>11, <2>1, RejectsStay DEF CompiledInv
    <2>4. WorkersInv'
      BY <1>1, <1>2, <1>4, <1>5, <1>7, <1>11, WorkersStay DEF CompiledInv
    <2>5. RewriteInv'
      BY <1>6 DEF RewriteInv
    <2> QED  BY <2>2, <2>3, <2>4, <2>5 DEF CompiledInv
  <1>12. CompInv'
    BY <1>1, <1>2, <1>3, <1>10, <1>11 DEF CompInv
  <1> QED  BY <1>8, <1>9, <1>12

(* The finalization begins: every shard is done.                           *)
LEMMA ClearKeeps ==
  ASSUME DataInv, files' = files, C!ClearTop
  PROVE  CompType' /\ DriveInv' /\ CompInv'
  <1>1. /\ cPc = "clear" /\ entries' = entries /\ temp' = temp /\ rejects' = rejects
        /\ results' = results /\ unwritten' = unwritten /\ sameInput' = sameInput
        /\ tempRemains' = tempRemains
        /\ out' = IF Top \in Splits THEN [out EXCEPT ![Top] = C!NoShards] ELSE out
        /\ splitsLeft' = C!SplitsWithParts
        /\ cPc' = IF C!SplitsWithParts = {} THEN "rmtree" ELSE "rewrite"
    BY DEF C!ClearTop
  <1>2. TokInv /\ OwnerInv /\ CompType /\ DriveInv /\ CompInv
    BY DEF DataInv
  <1>3. entries # NoFile /\ C!AllDone(entries) /\ temp.there /\ DOMAIN results = {}
    BY <1>1, <1>2 DEF DriveInv
  <1>4. /\ out' \in [Splits -> [Ids -> Pairs \cup {NoFile}]]
        /\ \A sp \in Splits, k \in Ids : out'[sp][k] \in {out[sp][k], NoFile}
    <2>1. out \in [Splits -> [Ids -> Pairs \cup {NoFile}]]
      BY <1>2 DEF CompType
    <2>2. C!NoShards \in [Ids -> Pairs \cup {NoFile}] /\ \A k \in Ids : C!NoShards[k] = NoFile
      BY DEF C!NoShards
    <2>3. CASE Top \in Splits
      <3>1. out' = [out EXCEPT ![Top] = C!NoShards]
        BY <1>1, <2>3
      <3> QED  BY <2>1, <2>2, <2>3, <3>1
    <2>4. CASE Top \notin Splits
      BY <1>1, <2>1, <2>4
    <2> QED  BY <2>3, <2>4
  <1>5. C!Present' = C!Present /\ C!SplitsWithParts' = C!SplitsWithParts
        /\ C!SplitsWithParts \subseteq Splits /\ C!AllDone(entries)' = C!AllDone(entries)
    BY <1>1 DEF C!Present, C!SplitsWithParts, C!AllDone
  <1>6. CompType'
    BY <1>1, <1>2, <1>4, <1>5 DEF CompType
  <1>7. DriveInv'
    BY <1>1, <1>2, <1>3, <1>5 DEF DriveInv
  <1>8. /\ DOMAIN entries' = DOMAIN entries
        /\ \A m \in DOMAIN entries : files'[m] = files[m]
    BY <1>1
  <1>9. ASSUME PartsInv, OutInv PROVE PartsInv' /\ OutInv'
    BY <1>1, <1>4, <1>8, <1>9, OutStays, PartsStay
  <1>10. ASSUME CompiledInv PROVE CompiledInv'
    <2>1. \A m \in DOMAIN entries : Compiled(m)' => Compiled(m)
      BY <1>1 DEF Compiled
    <2>2. PartsHere
      BY <1>1, <1>10 DEF CompiledInv, AtRest
    <2>3. PartsHere'
      BY <1>1, <1>2, <1>3, <1>8, <2>1, <2>2, PartsHereStay
    <2>4. RejectsInv'
      BY <1>1, <1>2, <1>3, <1>8, <1>10, <2>1, RejectsStay DEF CompiledInv
    <2>5. WorkersInv'
      BY <1>1, <1>3 DEF WorkersInv
    <2>6. cPc' = "rmtree" => OutWhole'
      <3> SUFFICES ASSUME C!SplitsWithParts = {}, NEW n \in DOMAIN entries,
                          NEW r \in files[n] \ Rejected
                   PROVE  FALSE
        BY <1>1 DEF OutWhole
      <3>1. HasParts(n, C!SplitsOf(n)) /\ SplitOf[r] \in C!SplitsOf(n)
        BY <1>2, <1>3, <2>2, SplitsFacts DEF PartsHere, Compiled, C!AllDone
      <3>2. SplitOf[r] \in Splits /\ Place(n) \in Ids
        BY <1>2, <1>3, <3>1, SplitsFacts, CompFacts
      <3> QED  BY <3>1, <3>2 DEF HasParts, C!SplitsWithParts
    <2>7. RewriteInv'
      BY <1>1, <1>5, <2>6 DEF RewriteInv
    <2> QED  BY <2>3, <2>4, <2>5, <2>7 DEF CompiledInv
  <1>11. CompInv'
    BY <1>1, <1>2, <1>9, <1>10 DEF CompInv
  <1> QED  BY <1>6, <1>7, <1>11

(* A split is rewritten: its output is its table, cut.                     *)
LEMMA RewriteKeeps ==
  ASSUME DataInv, files' = files, NEW sp \in Splits, C!RewriteSplit(sp)
  PROVE  CompType' /\ DriveInv' /\ CompInv'
  <1> DEFINE shards == C!Sliced(C!Table(sp))
  <1>1. /\ cPc = "rewrite" /\ sp \in splitsLeft
        /\ entries' = entries /\ temp' = temp /\ rejects' = rejects
        /\ results' = results /\ unwritten' = unwritten /\ sameInput' = sameInput
        /\ tempRemains' = tempRemains
        /\ out' = [out EXCEPT ![sp] = shards]
        /\ splitsLeft' = splitsLeft \ {sp}
        /\ cPc' = IF splitsLeft = {sp} THEN "rmtree" ELSE "rewrite"
    BY DEF C!RewriteSplit
  <1>2. TokInv /\ OwnerInv /\ CompType /\ DriveInv /\ CompInv
    BY DEF DataInv
  <1>3. entries # NoFile /\ C!AllDone(entries) /\ temp.there /\ DOMAIN results = {}
    BY <1>1, <1>2 DEF DriveInv
  <1>4. C!Table(sp) \in Pairs
    BY <1>2, TableFacts
  <1>5. /\ shards \in [Ids -> Pairs \cup {NoFile}]
        /\ \A k \in Ids : shards[k] # NoFile => shards[k] \subseteq C!Table(sp)
        /\ \A k, l \in Ids : \A x : InShard(x, shards[k]) /\ InShard(x, shards[l]) => k = l
    BY <1>4, SlicedFacts
  <1> HIDE DEF shards
  <1>6. /\ out' \in [Splits -> [Ids -> Pairs \cup {NoFile}]] /\ out'[sp] = shards
        /\ \A q \in Splits : q # sp => out'[q] = out[q]
    BY <1>1, <1>2, <1>5 DEF CompType
  <1>7. /\ C!Present' = C!Present /\ C!SplitsWithParts' = C!SplitsWithParts
        /\ C!AllDone(entries)' = C!AllDone(entries)
        /\ \A q : C!Sliced(C!Table(q))' = C!Sliced(C!Table(q))
    BY <1>1 DEF C!Present, C!SplitsWithParts, C!AllDone, C!Sliced, C!Table, C!Before
  <1>8. CompType'
    BY <1>1, <1>2, <1>6, <1>7 DEF CompType
  <1>9. DriveInv'
    BY <1>1, <1>2, <1>3, <1>7 DEF DriveInv
  <1>10. /\ DOMAIN entries' = DOMAIN entries
         /\ \A m \in DOMAIN entries : files'[m] = files[m]
    BY <1>1
  <1>11. ASSUME PartsInv, OutInv PROVE PartsInv' /\ OutInv'
    <2>1. PartsInv'
      BY <1>1, <1>10, <1>11, PartsStay
    <2>2. \A x \in C!Table(sp) : \E n \in DOMAIN entries : IsFrom(x, sp, n)
      BY <1>2, <1>3, <1>11, TablesApart
    <2>3. ASSUME NEW q \in Splits, NEW k \in Ids, out'[q][k] # NoFile
          PROVE  /\ \A x \in out'[q][k] : \E n \in DOMAIN entries : IsFrom(x, q, n)
                 /\ \A l \in Ids : \A x \in out'[q][k] :
                       out'[q][l] # NoFile /\ x \in out'[q][l] => l = k
      <3>1. CASE q = sp
        BY <1>5, <1>6, <2>2, <2>3, <3>1 DEF InShard
      <3>2. CASE q # sp
        BY <1>6, <1>11, <2>3, <3>2 DEF OutInv
      <3> QED  BY <3>1, <3>2
    <2>4. \A n \in DOMAIN entries : \A x, q : IsFrom(x, q, n)' = IsFrom(x, q, n)
      BY <1>10, SamePlaces
    <2>5. OutInv'
      BY <1>10, <2>3, <2>4 DEF OutInv
    <2> QED  BY <2>1, <2>5
  <1>12. ASSUME PartsInv, CompiledInv PROVE CompiledInv'
    <2>1. \A m \in DOMAIN entries : Compiled(m)' => Compiled(m)
      BY <1>1 DEF Compiled
    <2>2. PartsHere
      BY <1>1, <1>12 DEF CompiledInv, AtRest
    <2>3. PartsHere'
      BY <1>1, <1>2, <1>3, <1>10, <2>1, <2>2, PartsHereStay
    <2>4. RejectsInv'
      BY <1>1, <1>2, <1>3, <1>10, <1>12, <2>1, RejectsStay DEF CompiledInv
    <2>5. WorkersInv'
      BY <1>1, <1>3 DEF WorkersInv
    <2>6. \A q \in C!SplitsWithParts \ splitsLeft' : out'[q] = C!Sliced(C!Table(q))
      <3> TAKE q \in C!SplitsWithParts \ splitsLeft'
      <3>1. CASE q = sp
        BY <1>6, <3>1 DEF shards
      <3>2. CASE q # sp
        <4>1. q \in C!SplitsWithParts \ splitsLeft /\ q \in Splits
          BY <1>1, <3>2 DEF C!SplitsWithParts
        <4>2. out[q] = C!Sliced(C!Table(q))
          BY <1>1, <1>12, <4>1 DEF CompiledInv, RewriteInv
        <4> QED  BY <1>6, <3>2, <4>1, <4>2
      <3> QED  BY <3>1, <3>2
    <2>7. cPc' = "rmtree" => OutWhole'
      <3> SUFFICES ASSUME splitsLeft' = {}, NEW n \in DOMAIN entries,
                          NEW r \in files[n] \ Rejected
                   PROVE  InOut(n, r)'
        BY <1>1 DEF OutWhole
      <3> DEFINE q == SplitOf[r]
      <3>1. HasParts(n, C!SplitsOf(n)) /\ q \in C!SplitsOf(n) /\ r \in PartOf(n, q)
        BY <1>2, <1>3, <2>2, SplitsFacts DEF PartsHere, Compiled, C!AllDone
      <3>2. q \in Splits /\ Place(n) \in Ids /\ Place(n)' = Place(n)
        BY <1>2, <1>3, <1>10, <3>1, SplitsFacts, CompFacts, SamePlaces
      <3> HIDE DEF q
      <3>3. temp.parts[q][Place(n)] # NoFile /\ q \in C!SplitsWithParts
        BY <3>1, <3>2 DEF HasParts, C!SplitsWithParts
      <3>4. out'[q] = C!Sliced(C!Table(q))
        BY <2>6, <3>3
      <3>5. \E k \in Ids : /\ C!Sliced(C!Table(q))[k] # NoFile
                           /\ <<Place(n), r>> \in C!Sliced(C!Table(q))[k]
        BY <1>2, <1>3, <1>12, <3>1, <3>2, <3>3, SplitWhole
      <3> QED  BY <3>2, <3>4, <3>5 DEF InOut, q
    <2>8. RewriteInv'
      BY <1>7, <2>6, <2>7 DEF RewriteInv
    <2> QED  BY <2>3, <2>4, <2>5, <2>8 DEF CompiledInv
  <1>13. CompInv'
    BY <1>1, <1>2, <1>11, <1>12 DEF CompInv
  <1> QED  BY <1>8, <1>9, <1>13

(* The parts are removed when the output is whole.                         *)
LEMMA RemoveKeeps ==
  ASSUME DataInv, files' = files, C!RemoveTemp
  PROVE  CompType' /\ DriveInv' /\ CompInv'
  <1>1. /\ cPc = "rmtree" /\ cPc' = "down" /\ temp' = C!EmptyTemp
        /\ entries' = entries /\ rejects' = rejects /\ out' = out
        /\ results' = results /\ unwritten' = unwritten /\ splitsLeft' = splitsLeft
        /\ sameInput' = sameInput /\ tempRemains' = tempRemains
    BY DEF C!RemoveTemp
  <1>2. TokInv /\ OwnerInv /\ CompType /\ DriveInv /\ CompInv
    BY DEF DataInv
  <1>3. entries # NoFile /\ C!AllDone(entries) /\ DOMAIN results = {}
    BY <1>1, <1>2 DEF DriveInv
  <1>4. /\ temp' \in [there : BOOLEAN, parts : [Splits -> [Ids -> (SUBSET Rows) \cup {NoFile}]]]
        /\ temp'.there = FALSE /\ \A sp \in Splits, i \in Ids : temp'.parts[sp][i] = NoFile
    BY <1>1 DEF C!EmptyTemp
  <1>5. C!Present' = C!Present /\ C!AllDone(entries)' = C!AllDone(entries)
    BY <1>1 DEF C!Present, C!AllDone
  <1>6. CompType'
    BY <1>1, <1>2, <1>4, <1>5 DEF CompType
  <1>7. DriveInv'
    BY <1>1, <1>2, <1>3, <1>4 DEF DriveInv
  <1>8. /\ DOMAIN entries' = DOMAIN entries
        /\ \A m \in DOMAIN entries : files'[m] = files[m]
    BY <1>1
  <1>9. ASSUME PartsInv, OutInv PROVE PartsInv' /\ OutInv'
    BY <1>1, <1>4, <1>8, <1>9, OutStays, PartsStay
  <1>10. ASSUME CompiledInv PROVE CompiledInv'
    <2>1. \A m \in DOMAIN entries : Compiled(m)' => Compiled(m)
      BY <1>1 DEF Compiled
    <2>2. OutWhole'
      BY <1>1, <1>8, <1>10, OutWholeStays DEF CompiledInv, RewriteInv
    <2>3. AtRest'
      BY <1>1, <1>3, <1>4, <1>5 DEF AtRest
    <2>4. RejectsInv'
      BY <1>1, <1>2, <1>3, <1>8, <1>10, <2>1, RejectsStay DEF CompiledInv
    <2>5. WorkersInv'
      BY <1>1, <1>3 DEF WorkersInv
    <2>6. RewriteInv'
      BY <1>1 DEF RewriteInv
    <2> QED  BY <2>2, <2>3, <2>4, <2>5, <2>6 DEF CompiledInv
  <1>11. CompInv'
    BY <1>1, <1>2, <1>9, <1>10 DEF CompInv
  <1> QED  BY <1>6, <1>7, <1>11

(* A removal that is cut leaves parts as they were.                        *)
LEMMA PartlyKeeps ==
  ASSUME DataInv, files' = files, C!RemoveTempPartly
  PROVE  CompType' /\ DriveInv' /\ CompInv'
  <1>1. /\ cPc = "rmtree" /\ cPc' = "down" /\ temp' \in C!Leftovers
        /\ entries' = entries /\ rejects' = rejects /\ out' = out
        /\ results' = results /\ unwritten' = unwritten /\ splitsLeft' = splitsLeft
        /\ sameInput' = sameInput /\ tempRemains' = TRUE
    BY DEF C!RemoveTempPartly
  <1>2. TokInv /\ OwnerInv /\ CompType /\ DriveInv /\ CompInv
    BY DEF DataInv
  <1>3. entries # NoFile /\ DOMAIN results = {}
    BY <1>1, <1>2 DEF DriveInv
  <1>4. /\ temp' \in [there : BOOLEAN, parts : [Splits -> [Ids -> (SUBSET Rows) \cup {NoFile}]]]
        /\ temp'.there = TRUE
        /\ \A sp \in Splits, i \in Ids : temp'.parts[sp][i] \in {temp.parts[sp][i], NoFile}
    <2>1. PICK kept \in SUBSET C!SplitsWithParts :
             temp' = [there |-> TRUE,
                      parts |-> [sp \in Splits |-> [i \in Ids |->
                          IF sp \in kept THEN temp.parts[sp][i] ELSE NoFile]]]
      BY <1>1 DEF C!Leftovers
    <2>2. \A sp \in Splits, i \in Ids : temp.parts[sp][i] \in (SUBSET Rows) \cup {NoFile}
      BY <1>2, CompFacts
    <2> QED  BY <2>1, <2>2
  <1>5. C!Present' = C!Present
    BY <1>1 DEF C!Present
  <1>6. CompType'
    BY <1>1, <1>2, <1>4, <1>5 DEF CompType
  <1>7. DriveInv'
    BY <1>1, <1>2, <1>3, <1>4 DEF DriveInv
  <1>8. /\ DOMAIN entries' = DOMAIN entries
        /\ \A m \in DOMAIN entries : files'[m] = files[m]
    BY <1>1
  <1>9. ASSUME PartsInv, OutInv PROVE PartsInv' /\ OutInv'
    BY <1>1, <1>4, <1>8, <1>9, OutStays, PartsStay
  <1>10. CompInv'
    BY <1>1, <1>2, <1>9 DEF CompInv
  <1> QED  BY <1>6, <1>7, <1>10

(* The first shards of a split that is being rewritten, and none after.    *)
LEMMA CutKeeps ==
  ASSUME TokInv, OwnerInv, CompType, entries # NoFile, DOMAIN entries' = DOMAIN entries,
         \A m \in DOMAIN entries : files'[m] = files[m],
         NEW sp \in Splits, NEW n \in Ids,
         out' = [out EXCEPT ![sp] = [k \in Ids |->
                     IF k < n THEN C!Sliced(C!Table(sp))[k] ELSE NoFile]]
  PROVE  /\ out' \in [Splits -> [Ids -> Pairs \cup {NoFile}]]
         /\ PartsInv /\ OutInv => OutInv'
  <1> DEFINE shards == C!Sliced(C!Table(sp))
  <1>1. C!Table(sp) \in Pairs
    BY TableFacts
  <1>2. /\ shards \in [Ids -> Pairs \cup {NoFile}]
        /\ \A k \in Ids : shards[k] # NoFile => shards[k] \subseteq C!Table(sp)
        /\ \A k, l \in Ids : \A x : InShard(x, shards[k]) /\ InShard(x, shards[l]) => k = l
    BY <1>1, SlicedFacts
  <1> HIDE DEF shards
  <1>3. /\ out' \in [Splits -> [Ids -> Pairs \cup {NoFile}]]
        /\ \A q \in Splits : q # sp => out'[q] = out[q]
        /\ \A k \in Ids : out'[sp][k] # NoFile => out'[sp][k] = shards[k]
    <2>1. out \in [Splits -> [Ids -> Pairs \cup {NoFile}]]
      BY DEF CompType
    <2>2. out' = [out EXCEPT ![sp] = [k \in Ids |-> IF k < n THEN shards[k] ELSE NoFile]]
      BY DEF shards
    <2>3. [k \in Ids |-> IF k < n THEN shards[k] ELSE NoFile]
             \in [Ids -> Pairs \cup {NoFile}]
      BY <1>2
    <2> QED  BY <2>1, <2>2, <2>3
  <1>4. ASSUME PartsInv, OutInv PROVE OutInv'
    <2>1. \A x \in C!Table(sp) : \E m \in DOMAIN entries : IsFrom(x, sp, m)
      BY <1>4, TablesApart
    <2>2. ASSUME NEW q \in Splits, NEW k \in Ids, out'[q][k] # NoFile
          PROVE  /\ \A x \in out'[q][k] : \E m \in DOMAIN entries : IsFrom(x, q, m)
                 /\ \A l \in Ids : \A x \in out'[q][k] :
                       out'[q][l] # NoFile /\ x \in out'[q][l] => l = k
      <3>1. CASE q = sp
        BY <1>2, <1>3, <2>1, <2>2, <3>1 DEF InShard
      <3>2. CASE q # sp
        BY <1>3, <1>4, <2>2, <3>2 DEF OutInv
      <3> QED  BY <3>1, <3>2
    <2>3. \A m \in DOMAIN entries : \A x, q : IsFrom(x, q, m)' = IsFrom(x, q, m)
      BY SamePlaces
    <2> QED  BY <2>2, <2>3 DEF OutInv
  <1> QED  BY <1>3, <1>4

(* A kill leaves the parts and the manifest; a rewriting that is cut, the  *)
(* first shards of its split.                                              *)
LEMMA KillKeeps ==
  ASSUME DataInv, files' = files, C!CompileKill
  PROVE  CompType' /\ DriveInv' /\ CompInv'
  <1>1. /\ cPc # "down" /\ cPc' = "down"
        /\ out' \in {out} \cup (IF cPc = "rewrite" THEN C!CutRewrite ELSE {})
        /\ results' = C!Nothing /\ unwritten' = C!Nothing /\ splitsLeft' = {}
        /\ entries' = entries /\ temp' = temp /\ rejects' = rejects
        /\ sameInput' = sameInput /\ tempRemains' = tempRemains
    BY DEF C!CompileKill
  <1>2. TokInv /\ OwnerInv /\ CompType /\ DriveInv /\ CompInv
    BY DEF DataInv
  <1>3. entries # NoFile
    BY <1>1, <1>2 DEF DriveInv
  <1>4. /\ DOMAIN results' = {} /\ results' \in [DOMAIN results' -> {"run", "ok", "raised"}]
        /\ unwritten' \in [DOMAIN results' -> SUBSET Splits]
    BY <1>1 DEF C!Nothing
  <1>5. /\ C!Present' = C!Present /\ C!AllDone(entries)' = C!AllDone(entries)
        /\ DOMAIN entries' = DOMAIN entries
        /\ \A m \in DOMAIN entries : files'[m] = files[m]
    BY <1>1 DEF C!Present, C!AllDone
  <1>6. /\ out' \in [Splits -> [Ids -> Pairs \cup {NoFile}]]
        /\ PartsInv /\ OutInv => OutInv'
    <2>1. out \in [Splits -> [Ids -> Pairs \cup {NoFile}]]
      BY <1>2 DEF CompType
    <2>2. CASE out' = out
      <3>1. \A sp \in Splits, k \in Ids : out'[sp][k] \in {out[sp][k], NoFile}
        BY <2>2
      <3> QED  BY <1>5, <2>1, <2>2, <3>1, OutStays
    <2>3. CASE out' # out
      <3>1. out' \in C!CutRewrite
        BY <1>1, <2>3
      <3>2. PICK sp \in splitsLeft, n \in Ids :
               out' = [out EXCEPT ![sp] = [k \in Ids |->
                          IF k < n THEN C!Sliced(C!Table(sp))[k] ELSE NoFile]]
        BY <3>1 DEF C!CutRewrite
      <3>3. sp \in Splits
        BY <1>2 DEF CompType
      <3>4. /\ TokInv /\ OwnerInv /\ CompType /\ DOMAIN entries' = DOMAIN entries
            /\ \A m \in DOMAIN entries : files'[m] = files[m]
        BY <1>2, <1>5
      <3> QED  BY ONLY <1>3, <3>2, <3>3, <3>4, CutKeeps
    <2> QED  BY <2>2, <2>3
  <1>7. CompType'
    BY <1>1, <1>2, <1>4, <1>5, <1>6 DEF CompType
  <1>8. DriveInv'
    BY <1>1, <1>2, <1>3, <1>4 DEF DriveInv
  <1>9. ASSUME PartsInv, OutInv PROVE PartsInv' /\ OutInv'
    BY <1>1, <1>5, <1>6, <1>9, PartsStay
  <1>10. ASSUME CompiledInv PROVE CompiledInv'
    <2>1. \A m \in DOMAIN entries : Compiled(m)' => Compiled(m)
      BY <1>1, <1>4 DEF Compiled
    <2>2. PartsHere
      BY <1>1, <1>10 DEF CompiledInv, AtRest
    <2>3. PartsHere'
      BY <1>1, <1>2, <1>3, <1>5, <2>1, <2>2, PartsHereStay
    <2>4. RejectsInv'
      BY <1>1, <1>2, <1>3, <1>5, <1>10, <2>1, RejectsStay DEF CompiledInv
    <2>5. WorkersInv'
      BY <1>4 DEF WorkersInv
    <2>6. RewriteInv'
      BY <1>1 DEF RewriteInv
    <2> QED  BY <2>3, <2>4, <2>5, <2>6 DEF CompiledInv
  <1>11. CompInv'
    BY <1>1, <1>2, <1>9, <1>10 DEF CompInv
  <1> QED  BY <1>7, <1>8, <1>11

(* A run takes over what it knows of the shards it lists.                  *)
LEMMA StartKeeps ==
  ASSUME DataInv, files' = files, C!CompileStart
  PROVE  CompType' /\ DriveInv' /\ CompInv'
  <1> DEFINE m0 == C!Resumed
             pending == {n \in DOMAIN m0 : m0[n] # "done"}
  <1>1. /\ cPc = "down" /\ temp' = temp /\ rejects' = rejects /\ out' = out
        /\ splitsLeft' = splitsLeft /\ tempRemains' = tempRemains
    BY DEF C!CompileStart
  <1>2. TokInv /\ OwnerInv /\ CompType /\ DriveInv /\ CompInv
    BY DEF DataInv
  <1>3. C!Present' = C!Present
    BY DEF C!Present
  <1>4. CASE C!Present = {}
    <2>1. /\ entries' = entries /\ results' = results /\ unwritten' = unwritten
          /\ cPc' = cPc /\ sameInput' = sameInput
      BY <1>4 DEF C!CompileStart
    <2>2. UNCHANGED compVars \/ cRuns' # cRuns
      BY <1>1, <2>1 DEF compVars
    <2> QED  BY <1>1, <1>2, <2>1, CompStutters
  <1>5. CASE C!Present # {}
    <2>1. /\ entries' = m0
          /\ sameInput' = (sameInput /\ (entries # NoFile => DOMAIN entries = C!Present))
          /\ results' = [n \in pending |-> "run"]
          /\ unwritten' = [n \in pending |-> C!SplitsOf(n)]
          /\ cPc' = IF pending # {} THEN "pool" ELSE C!AfterPool(m0, temp.there)
      BY <1>5 DEF C!CompileStart
    <2>2. /\ m0 \in [C!Present -> Marks] /\ DOMAIN m0 = C!Present
          /\ m0 # NoFile /\ C!Present \in SUBSET Ids
          /\ \A n \in C!Present : m0[n] = IF entries # NoFile /\ n \in DOMAIN entries
                                            THEN entries[n] ELSE "pending"
      <3>1. C!Present \in SUBSET Ids
        BY DEF C!Present
      <3>2. m0 = [n \in C!Present |-> IF entries # NoFile /\ n \in DOMAIN entries
                                        THEN entries[n] ELSE "pending"]
        BY DEF C!Resumed
      <3>3. entries # NoFile => \A n \in DOMAIN entries : entries[n] \in Marks
        BY <1>2 DEF CompType
      <3>4. m0 \in [C!Present -> Marks]
        BY <3>2, <3>3 DEF Marks
      <3> QED  BY <3>1, <3>2, <3>4, DataConstants
    <2> HIDE DEF m0
    <2>3. pending \subseteq C!Present /\ \A n \in pending : m0[n] # "done"
      BY <2>2
    <2>4. /\ DOMAIN results' = pending /\ \A n \in pending : results'[n] = "run"
          /\ results' \in [DOMAIN results' -> {"run", "ok", "raised"}]
          /\ \A n \in pending : unwritten'[n] = C!SplitsOf(n)
      BY <2>1
    <2>5. unwritten' \in [DOMAIN results' -> SUBSET Splits]
      <3>1. \A n \in C!Present : files[n] \in SUBSET Rows
        BY <1>2, <2>2 DEF TokInv, TokType, C!Present
      <3>2. \A n \in C!Present : C!SplitsOf(n) \in SUBSET Splits
        BY <3>1, DataConstants DEF C!SplitsOf
      <3> QED  BY <2>1, <2>3, <2>4, <3>2
    <2>6. /\ cPc' \in {"pool", "clear", "down"}
          /\ cPc' # "pool" => pending = {}
          /\ cPc' = "clear" => C!AllDone(entries') /\ temp.there
          /\ pending = {} /\ ~temp.there => cPc' = "down"
      BY <2>1 DEF C!AfterPool
    <2> HIDE DEF pending
    <2>7. CompType'
      BY <1>1, <1>2, <1>3, <2>1, <2>2, <2>4, <2>5, <2>6 DEF CompType
    <2>8. DriveInv'
      <3>1. C!AllDone(entries)' = C!AllDone(entries')
        BY DEF C!AllDone
      <3>2. \A n \in DOMAIN results' : n \in DOMAIN entries' /\ entries'[n] # "done"
        BY <2>1, <2>2, <2>3, <2>4
      <3> QED  BY <1>1, <1>2, <2>1, <2>2, <2>4, <2>6, <3>1, <3>2 DEF DriveInv
    <2>9. \A n \in DOMAIN results' : results'[n] = "run" /\ unwritten'[n] = C!SplitsOf(n)'
      <3>1. \A n : C!SplitsOf(n)' = C!SplitsOf(n)
        BY DEF C!SplitsOf
      <3> QED  BY <2>4, <3>1
    <2>10. WorkersInv' /\ RewriteInv'
      BY <2>6, <2>9 DEF WorkersInv, HasParts, RewriteInv
    <2>11. CASE entries = NoFile
      <3>1. \A sp \in Splits, i \in Ids : temp'.parts[sp][i] = NoFile /\ out'[sp][i] = NoFile
        BY <1>1, <1>2, <2>11 DEF DriveInv
      <3>2. PartsInv' /\ OutInv'
        BY <3>1 DEF PartsInv, OutInv
      <3>3. \A n \in DOMAIN entries' : ~Compiled(n)'
        BY <2>1, <2>2, <2>9, <2>11 DEF Compiled
      <3>4. RejectsInv' /\ PartsHere'
        BY <3>3 DEF RejectsInv, PartsHere
      <3> QED  BY <2>7, <2>8, <2>10, <3>2, <3>4 DEF CompInv, CompiledInv
    <2>12. CASE entries # NoFile
      <3> SUFFICES ASSUME sameInput'
                   PROVE  /\ PartsInv' /\ OutInv'
                          /\ ~tempRemains' => CompiledInv'
        BY <2>7, <2>8 DEF CompInv
      <3>1. sameInput /\ DOMAIN entries = C!Present
        BY <2>1, <2>12
      <3>2. /\ DOMAIN entries' = DOMAIN entries
            /\ \A n \in DOMAIN entries : entries'[n] = entries[n] /\ files'[n] = files[n]
        BY <2>1, <2>2, <2>12, <3>1
      <3>3. PartsInv' /\ OutInv'
        BY <1>1, <1>2, <2>12, <3>1, <3>2, PartsStay, OutStays DEF CompInv
      <3>4. ASSUME ~tempRemains' PROVE CompiledInv'
        <4>1. CompiledInv
          BY <1>1, <1>2, <2>12, <3>1, <3>4 DEF CompInv
        <4>2. \A n \in DOMAIN entries : Compiled(n)' => Compiled(n)
          BY <2>9, <3>2 DEF Compiled
        <4>3. RejectsInv'
          BY <1>1, <1>2, <2>12, <3>2, <4>1, <4>2, RejectsStay DEF CompiledInv
        <4>4. CASE PartsHere
          <5>1. PartsHere'
            BY <1>1, <1>2, <2>12, <3>2, <4>2, <4>4, PartsHereStay
          <5> QED  BY <2>10, <4>3, <5>1 DEF CompiledInv
        <4>5. CASE AtRest /\ OutWhole
          <5>1. OutWhole'
            BY <1>1, <3>2, <4>5, OutWholeStays
          <5>2. \A n \in DOMAIN entries' : entries'[n] = "done"
            BY <3>2, <4>5 DEF AtRest, C!AllDone
          <5>3. pending = {}
            BY <2>1, <5>2 DEF pending
          <5>4. AtRest'
            BY <1>1, <2>6, <4>5, <5>2, <5>3 DEF AtRest, C!AllDone
          <5> QED  BY <2>10, <4>3, <5>1, <5>4 DEF CompiledInv
        <4> QED  BY <4>1, <4>4, <4>5 DEF CompiledInv
      <3> QED  BY <3>3, <3>4
    <2> QED  BY <2>11, <2>12
  <1> QED  BY <1>4, <1>5

(* The directory of the compiled data begins empty.                        *)
LEMMA CompBegins ==
  ASSUME C!CInit
  PROVE  CompType /\ DriveInv /\ CompInv
  <1>1. /\ entries = NoFile /\ temp = C!EmptyTemp /\ rejects = [i \in Ids |-> {}]
        /\ out = [sp \in Splits |-> C!NoShards] /\ cPc = "down"
        /\ results = C!Nothing /\ unwritten = C!Nothing /\ splitsLeft = {}
        /\ sameInput = TRUE /\ tempRemains = FALSE
    BY DEF C!CInit
  <1>2. /\ DOMAIN results = {} /\ results \in [DOMAIN results -> {"run", "ok", "raised"}]
        /\ unwritten \in [DOMAIN results -> SUBSET Splits]
    BY <1>1 DEF C!Nothing
  <1>3. /\ temp \in [there : BOOLEAN, parts : [Splits -> [Ids -> (SUBSET Rows) \cup {NoFile}]]]
        /\ \A sp \in Splits, i \in Ids : temp.parts[sp][i] = NoFile
    BY <1>1 DEF C!EmptyTemp
  <1>4. /\ out \in [Splits -> [Ids -> Pairs \cup {NoFile}]]
        /\ \A sp \in Splits, i \in Ids : out[sp][i] = NoFile
    BY <1>1 DEF C!NoShards
  <1>5. CompType
    BY <1>1, <1>2, <1>3, <1>4 DEF CompType
  <1>6. DriveInv
    BY <1>1, <1>2, <1>3, <1>4 DEF DriveInv
  <1>7. CompInv
    BY <1>1 DEF CompInv
  <1> QED  BY <1>5, <1>6, <1>7

(* Every step of the two commands keeps the invariant.                     *)
LEMMA DataStep ==
  ASSUME DataInv, [PipelineNext]_pipelineVars
  PROVE  DataInv'
  <1>1. TokInv /\ OwnerInv /\ CompType /\ DriveInv /\ CompInv
    BY DEF DataInv
  <1>2. CASE cPc = "down" /\ TokStep /\ UNCHANGED compVars
    <2>1. TokInv'
      BY <1>1, <1>2, TokStepKeeps
    <2>2. OwnerInv'
      BY <1>1, <1>2, OwnerKeeps
    <2>3. \A n \in Ids : files[n] # NoFile => files'[n] = files[n]
      BY <1>1, <1>2, FilesGrow
    <2>4. CompType' /\ DriveInv' /\ CompInv'
      BY <1>1, <1>2, <2>3, CompStutters DEF compVars
    <2> QED  BY <2>1, <2>2, <2>4 DEF DataInv
  <1>3. ASSUME UNCHANGED tokVars PROVE TokInv' /\ OwnerInv' /\ files' = files
    <2>1. files' = files /\ given' = given /\ manifest' = manifest
      BY <1>3 DEF tokVars
    <2>2. OwnerInv'
      BY <1>1, <2>1 DEF OwnerInv, InFile
    <2> QED  BY <1>1, <1>3, <2>1, <2>2, TokStutters
  <1>4. CASE C!CompileStep /\ UNCHANGED tokVars
    <2>1. files' = files
      BY <1>3, <1>4
    <2>2. CompType' /\ DriveInv' /\ CompInv'
      BY <1>4, <2>1, StartKeeps, KillKeeps, PartlyKeeps, RaiseKeeps, ReturnKeeps,
         CollectKeeps, WriteKeeps, ClearKeeps, RewriteKeeps, RemoveKeeps
      DEF C!CompileStep, C!CompileWork
    <2> QED  BY <1>3, <1>4, <2>2 DEF DataInv
  <1>5. CASE UNCHANGED pipelineVars
    <2>1. UNCHANGED tokVars /\ UNCHANGED compVars
      BY <1>5 DEF pipelineVars
    <2>2. TokInv' /\ OwnerInv' /\ files' = files
      BY <1>3, <2>1
    <2>3. CompType' /\ DriveInv' /\ CompInv'
      BY <1>1, <2>1, <2>2, CompStutters DEF compVars
    <2> QED  BY <2>2, <2>3 DEF DataInv
  <1> QED  BY <1>2, <1>4, <1>5 DEF PipelineNext

(* The invariant of the two stages over one directory is inductive.        *)
THEOREM DataInductive == DataSpec => []DataInv
  <1>1. PipelineInit => DataInv
    <2> SUFFICES ASSUME PipelineInit PROVE DataInv
      OBVIOUS
    <2>1. TokInv
      BY TokBegins DEF PipelineInit
    <2>2. CompType /\ DriveInv /\ CompInv
      BY CompBegins DEF PipelineInit
    <2>3. OwnerInv
      BY DEF PipelineInit, TokInit, OwnerInv
    <2> QED  BY <2>1, <2>2, <2>3 DEF DataInv
  <1>2. DataInv /\ [PipelineNext]_pipelineVars => DataInv'
    BY DataStep
  <1> QED  BY <1>1, <1>2, PTL DEF DataSpec

(* A compiled data set has every row once: no row is twice in the output   *)
(* while the shards stay what they were, and none is missing when all are  *)
(* done, for any source, any split of its rows, size of shards, and kills  *)
(* of either command at any point.                                         *)
THEOREM DataCompiledOnce == DataSpec => []CompiledOnce
  <1>1. ASSUME DataInv PROVE C!NoRowTwice
    <2>1. TokInv /\ OwnerInv /\ CompType /\ DriveInv /\ CompInv
      BY <1>1 DEF DataInv
    <2> SUFFICES ASSUME sameInput, NEW s \in C!OutShards, NEW t \in C!OutShards,
                        NEW x \in out[s[1]][s[2]], NEW y \in out[t[1]][t[2]], x[2] = y[2]
                 PROVE  s = t /\ x = y
      BY DEF C!NoRowTwice
    <2>2. /\ s \in Splits \X Ids /\ out[s[1]][s[2]] # NoFile
          /\ t \in Splits \X Ids /\ out[t[1]][t[2]] # NoFile
      BY DEF C!OutShards
    <2>3. entries # NoFile
      BY <2>1, <2>2 DEF DriveInv
    <2>4. PartsInv /\ OutInv
      BY <2>1, <2>3 DEF CompInv
    <2>5. PICK m \in DOMAIN entries : IsFrom(x, s[1], m)
      BY <2>2, <2>4 DEF OutInv
    <2>6. PICK n \in DOMAIN entries : IsFrom(y, t[1], n)
      BY <2>2, <2>4 DEF OutInv
    <2>7. /\ m \in Ids /\ n \in Ids /\ files[m] # NoFile /\ files[n] # NoFile
      BY <2>1, <2>3, CompFacts
    <2>8. m = n
      BY <2>1, <2>5, <2>6, <2>7, FilesApart DEF IsFrom, PartOf
    <2>9. s[1] = t[1] /\ x[1] = y[1]
      BY <2>5, <2>6, <2>8 DEF IsFrom, PartOf
    <2>10. x = <<x[1], x[2]>> /\ y = <<y[1], y[2]>>
      <3>1. /\ out[s[1]][s[2]] \in Pairs \cup {NoFile}
            /\ out[t[1]][t[2]] \in Pairs \cup {NoFile}
        BY <2>1, <2>2, CompFacts
      <3>2. x \in Ids \X Rows /\ y \in Ids \X Rows
        BY <2>2, <3>1 DEF Pairs
      <3> QED  BY <3>2
    <2>11. x = y
      BY <2>9, <2>10
    <2>12. s[2] = t[2]
      BY <2>2, <2>4, <2>9, <2>11 DEF OutInv
    <2> QED  BY <2>2, <2>9, <2>11, <2>12
  <1>2. ASSUME DataInv PROVE C!OutputComplete
    <2>1. TokInv /\ OwnerInv /\ CompType /\ DriveInv /\ CompInv
      BY <1>2 DEF DataInv
    <2> SUFFICES ASSUME C!Finished, sameInput, ~tempRemains,
                        NEW n \in DOMAIN entries, NEW r \in files[n]
                 PROVE  r \in C!RowsOut \/ \E i \in Ids : r \in rejects[i]
      BY DEF C!OutputComplete, C!Complete
    <2>2. entries # NoFile /\ C!AllDone(entries) /\ ~temp.there
      BY DEF C!Finished
    <2>3. CompiledInv /\ Place(n) \in Ids
      BY <2>1, <2>2, CompFacts DEF CompInv
    <2>4. CASE r \in Rejected
      BY <2>2, <2>3, <2>4 DEF CompiledInv, RejectsInv, Compiled, C!AllDone
    <2>5. CASE r \notin Rejected
      <3> DEFINE sp == SplitOf[r]
      <3>1. sp \in C!SplitsOf(n) /\ sp \in Splits
        BY <2>1, <2>2, <2>5, SplitsFacts
      <3>2. ~PartsHere
        BY <2>1, <2>2, <2>3, <3>1 DEF PartsHere, HasParts, Compiled, DriveInv, C!AllDone
      <3>3. OutWhole
        BY <2>3, <3>2 DEF CompiledInv
      <3>4. PICK k \in Ids : out[sp][k] # NoFile /\ <<Place(n), r>> \in out[sp][k]
        BY <2>5, <3>3 DEF OutWhole, InOut
      <3>5. <<sp, k>> \in C!OutShards
        BY <3>1, <3>4 DEF C!OutShards
      <3>6. r \in {z[2] : z \in out[sp][k]}
        BY <3>4
      <3> HIDE DEF sp
      <3> QED  BY <3>5, <3>6 DEF C!RowsOut
    <2> QED  BY <2>4, <2>5
  <1>3. DataInv => CompiledOnce
    BY <1>1, <1>2 DEF CompiledOnce, C!CompiledOnce
  <1> QED  BY <1>3, DataInductive, PTL

-----------------------------------------------------------------------------
(* The checkpoints of a finetune.                                          *)

(* The run `training` does this in its part "keeper".                      *)
KeeperSpec == KeeperInit /\ [][KeeperNext]_keeperVars

Values == Metrics \cup {NoMetric}

Training == {"train", "save", "adapter", "keep", "prune"}

KeeperType ==
    /\ setup \in Setups
    /\ dirs \in [Steps -> {"none", "whole", "partial"}]
    /\ stateLog \in [Steps -> Values] /\ dirLog \in [Steps -> [Steps -> Values]]
    /\ step \in 0 .. MaxStep
    /\ trainPc \in {"down", "refused"} \cup Training
    /\ victims \in Seq(Steps)
    /\ kills \in Nat
    /\ DOMAIN known \subseteq Steps /\ known \in [DOMAIN known -> Values]
    /\ cut \in BOOLEAN

(* Where a run is in its steps: what is on disk is behind it, and what it    *)
(* has just saved is whole.                                                *)
PlaceInv ==
    /\ trainPc \in {"save", "adapter", "keep", "prune"} => step \in Steps
    /\ trainPc \in Training => \A s \in OnDisk : s <= step
    /\ trainPc = "save" => dirs[step] = "none"
    /\ trainPc \in {"adapter", "keep"} => dirs[step] = "whole"

(* A broken checkpoint is not the newest: a whole one is above it, unless it *)
(* is what a save that was cut has left.  Where the newest may be removed,   *)
(* every broken one is accounted for.                                      *)
Covered(s) == \E t \in Steps : t > s /\ dirs[t] = "whole"
Leftover(s) == trainPc \in {"down", "refused"} /\ cut = TRUE /\ \A t \in OnDisk : t <= s
BrokenInv ==
    \A s \in Steps : dirs[s] = "partial" =>
        /\ setup.lastN = 0 => cut = TRUE
        /\ setup.lastN # 0 => Covered(s) \/ Leftover(s)

(* What is left to remove: with last_n, never the newest.                  *)
VictimInv ==
    /\ trainPc # "prune" => victims = <<>>
    /\ trainPc = "prune" => \A k \in DOMAIN victims : victims[k] <= step
    /\ trainPc = "prune" /\ setup.lastN # 0 =>
         dirs[step] = "whole" /\ \A k \in DOMAIN victims : victims[k] # step

ResumeInv == KeeperType /\ PlaceInv /\ BrokenInv /\ VictimInv

(* The newest checkpoint on disk.                                          *)
LEMMA LastFacts ==
  ASSUME KeeperType
  PROVE  /\ OnDisk = {} <=> LastCheckpoint = 0
         /\ OnDisk # {} => LastCheckpoint \in OnDisk /\ \A s \in OnDisk : s <= LastCheckpoint
         /\ LastCheckpoint \in 0 .. MaxStep
         /\ LastCheckpoint # 0 => LastCheckpoint \in Steps
  <1>1. MaxStep \in Nat /\ OnDisk \subseteq 1 .. MaxStep /\ OnDisk \subseteq 0 .. MaxStep
    BY KeeperAssumption DEF OnDisk, Steps
  <1>2. CASE OnDisk = {}
    BY <1>1, <1>2 DEF LastCheckpoint
  <1>3. CASE OnDisk # {}
    <2>1. Max(OnDisk) \in OnDisk /\ \A s \in OnDisk : s <= Max(OnDisk)
      BY Zenon, <1>1, <1>3, ExtremeFacts
    <2>2. LastCheckpoint = Max(OnDisk)
      BY <1>3 DEF LastCheckpoint
    <2>3. LastCheckpoint \in OnDisk /\ \A s \in OnDisk : s <= LastCheckpoint
      BY <2>1, <2>2
    <2>4. LastCheckpoint \in 1 .. MaxStep
      BY <1>1, <2>3
    <2>5. LastCheckpoint # 0 /\ LastCheckpoint \in 0 .. MaxStep
      BY <1>1, <2>4
    <2> QED  BY <1>3, <2>3, <2>4, <2>5 DEF Steps
  <1> QED  BY <1>2, <1>3

(* What is whole and newest is what a run resumes from.                    *)
LEMMA ResumeSound ==
  ASSUME ResumeInv
  PROVE  ResumesFromWhole
  <1> SUFFICES ASSUME LastCheckpoint # 0, ~cut PROVE dirs[LastCheckpoint] = "whole"
    BY DEF ResumesFromWhole
  <1>1. LastCheckpoint \in OnDisk /\ LastCheckpoint \in Steps /\ \A s \in OnDisk : s <= LastCheckpoint
    BY LastFacts DEF ResumeInv
  <1>2. ~(\E t \in Steps : t > LastCheckpoint /\ dirs[t] = "whole")
    <2> SUFFICES ASSUME NEW t \in Steps, t > LastCheckpoint, dirs[t] = "whole" PROVE FALSE
      OBVIOUS
    <2>1. t \in OnDisk
      BY DEF OnDisk
    <2>2. t \in Nat /\ LastCheckpoint \in Nat
      BY <1>1, KeeperAssumption DEF Steps
    <2> QED  BY <1>1, <2>1, <2>2
  <1>3. dirs[LastCheckpoint] # "partial"
    BY <1>1, <1>2 DEF ResumeInv, BrokenInv, Covered, Leftover
  <1> QED  BY <1>1, <1>3 DEF ResumeInv, KeeperType, OnDisk

(* A finite set of naturals has a member of every rank.                    *)
LEMMA Ranked ==
  ASSUME NEW n \in Nat, NEW S, S \subseteq 0 .. n, NEW k \in 1 .. Cardinality(S)
  PROVE  \E s \in S : Cardinality({t \in S : t < s}) = k - 1
  <1> DEFINE c == Cardinality(S)
             below(s) == {t \in S : t < s}
             T == {j \in 1 .. c : ~ \E s \in S : Cardinality(below(s)) = j - 1}
  <1>1. IsFiniteSet(S) /\ c \in Nat /\ S \subseteq Nat
    <2>1. 0 \in Int /\ n \in Int /\ S \in SUBSET (0 .. n)
      OBVIOUS
    <2>2. IsFiniteSet(S)
      BY <2>1, FS_Interval, FS_Subset
    <2> QED  BY <2>2, FS_CardinalityType
  <1>2. S # {}
    BY FS_EmptySet
  <1>3. \A s \in S : IsFiniteSet(below(s)) /\ Cardinality(below(s)) \in Nat
    BY <1>1, FS_Subset, FS_CardinalityType
  <1>0. k \in 1 .. c
    OBVIOUS
  <1> HIDE DEF c
  <1>4. SUFFICES ASSUME T # {} PROVE FALSE
    BY <1>0
  <1>5. PICK j \in T : \A i \in T : j <= i
    <2>1. T \subseteq Nat
      OBVIOUS
    <2> HIDE DEF T
    <2> QED  BY Zenon, <1>4, <2>1, LeastNat
  <1>6. CASE j = 1
    <2>1. PICK m \in S : \A t \in S : m <= t
      BY <1>1, <1>2, LeastNat
    <2>2. below(m) = {}
      <3>1. \A t \in S : ~(t < m)
        BY <1>1, <2>1
      <3> QED  BY <3>1
    <2>3. Cardinality(below(m)) = 0
      BY <2>2, FS_EmptySet
    <2> QED  BY <1>5, <1>6, <2>3
  <1>7. CASE j # 1
    <2>1. j - 1 \in 1 .. c /\ j - 1 \notin T /\ j \in Nat /\ j <= c
      BY <1>1, <1>5, <1>7
    <2>2. PICK s \in S : Cardinality(below(s)) = (j - 1) - 1
      BY <2>1
    <2> DEFINE B == below(s)
               U == {t \in S : t > s}
    <2>3. s \notin B /\ IsFiniteSet(B) /\ Cardinality(B) = (j - 1) - 1
      BY <1>1, <1>3, <2>2
    <2>4. IsFiniteSet(B \cup {s}) /\ Cardinality(B \cup {s}) = j - 1
      <3> HIDE DEF B
      <3>1. Cardinality(B \cup {s}) = Cardinality(B) + 1
        BY <2>3, FS_AddElement
      <3> QED  BY <2>1, <2>3, <3>1, FS_AddElement
    <2>5. U # {}
      <3> SUFFICES ASSUME U = {} PROVE FALSE
        OBVIOUS
      <3>0. \A t \in S : t < s \/ t = s \/ t > s
        BY <1>1
      <3>1. S = B \cup {s}
        BY <3>0
      <3> HIDE DEF B, U
      <3>2. c = j - 1
        BY <2>4, <3>1 DEF c
      <3> QED  BY <1>1, <2>1, <3>2
    <2>6. PICK m \in U : \A t \in U : m <= t
      BY <1>1, <2>5, LeastNat
    <2>7. below(m) = B \cup {s}
      <3>1. \A t \in S : t < m <=> t < s \/ t = s
        <4> TAKE t \in S
        <4>1. m \in Nat /\ s \in Nat /\ t \in Nat /\ s < m
          BY <1>1, <2>6
        <4>2. t > s => m <= t
          BY <2>6
        <4> QED  BY <4>1, <4>2
      <3> QED  BY <3>1
    <2> QED  BY <1>5, <2>4, <2>6, <2>7
  <1> QED  BY <1>6, <1>7

(* The steps to remove, in order, are the steps to remove.                 *)
LEMMA AscendingFacts ==
  ASSUME NEW S, S \subseteq Steps
  PROVE  Ascending(S) \in Seq(Steps) /\ \A k \in DOMAIN Ascending(S) : Ascending(S)[k] \in S
  <1>1. MaxStep \in Nat /\ S \subseteq 0 .. MaxStep
    BY KeeperAssumption DEF Steps
  <1> DEFINE c == Cardinality(S)
             nth(k) == CHOOSE s \in S : Cardinality({t \in S : t < s}) = k - 1
  <1>2. IsFiniteSet(S) /\ c \in Nat
    <2>1. 0 \in Int /\ MaxStep \in Int /\ S \in SUBSET (0 .. MaxStep)
      BY <1>1
    <2>2. IsFiniteSet(S)
      BY <2>1, FS_Interval, FS_Subset
    <2> QED  BY <2>2, FS_CardinalityType
  <1>3. \A k \in 1 .. c : nth(k) \in S
    <2> TAKE k \in 1 .. c
    <2>1. \E s \in S : Cardinality({t \in S : t < s}) = k - 1
      BY <1>1, Ranked
    <2> QED  BY <2>1
  <1>4. Ascending(S) = [k \in 1 .. c |-> nth(k)]
    BY DEF Ascending
  <1> HIDE DEF c, nth
  <1> QED  BY <1>2, <1>3, <1>4

(* Which callback follows which.                                           *)
LEMMA CallbackFacts ==
  ASSUME KeeperType
  PROVE  /\ NextCallback("save") = IF setup.lora THEN "adapter" ELSE "keep"
         /\ NextCallback("adapter") = "keep" /\ NextCallback("keep") = "train"
         /\ setup.lora \in BOOLEAN /\ setup.lastN \in Nat /\ setup.bestK \in Nat
  <1>1. setup.lora \in BOOLEAN /\ setup.lastN \in Nat /\ setup.bestK \in Nat
    BY KeeperAssumption DEF KeeperType
  <1>2. NextCallback("save") = IF setup.lora THEN "adapter" ELSE "keep"
    <2>1. CASE setup.lora
      BY <2>1 DEF NextCallback
    <2>2. CASE ~setup.lora
      BY <2>2 DEF NextCallback
    <2> QED  BY <2>1, <2>2
  <1>3. NextCallback("adapter") = "keep" /\ NextCallback("keep") = "train"
    BY DEF NextCallback
  <1> QED  BY <1>1, <1>2, <1>3

(* Every step keeps the types, given what is saved to and removed from.    *)
LEMMA KeeperTypeStep ==
  ASSUME KeeperType, PlaceInv, KeeperNext
  PROVE  KeeperType'
  <1>1. /\ setup \in Setups
        /\ dirs \in [Steps -> {"none", "whole", "partial"}]
        /\ stateLog \in [Steps -> Values] /\ dirLog \in [Steps -> [Steps -> Values]]
        /\ step \in 0 .. MaxStep /\ victims \in Seq(Steps) /\ kills \in Nat /\ cut \in BOOLEAN
        /\ DOMAIN known \subseteq Steps /\ known \in [DOMAIN known -> Values]
        /\ trainPc \in {"down", "refused"} \cup Training
    BY DEF KeeperType
  <1>2. MaxStep \in Nat /\ Steps = 1 .. MaxStep
    BY KeeperAssumption DEF Steps
  <1>3. /\ NextCallback("save") \in Training /\ NextCallback("adapter") \in Training
        /\ NextCallback("keep") \in Training
    BY CallbackFacts DEF Training
  <1>4. CASE TrainStep
    <2>1. PICK m \in Values : stateLog' = [stateLog EXCEPT ![step + 1] = m]
      BY <1>4 DEF TrainStep, Values
    <2>2. step' \in 0 .. MaxStep /\ stateLog' \in [Steps -> Values] /\ trainPc' \in Training
      BY <1>1, <1>2, <1>4, <2>1 DEF TrainStep, Training
    <2> QED  BY <1>1, <1>4, <2>2 DEF TrainStep, KeeperType
  <1>5. CASE Save
    <2>1. step \in Steps
      BY <1>5 DEF Save, PlaceInv
    <2>2. dirs' \in [Steps -> {"none", "whole", "partial"}] /\ dirLog' \in [Steps -> [Steps -> Values]]
      BY <1>1, <1>5, <2>1 DEF Save
    <2>3. /\ DOMAIN known' = DOMAIN known \cup {step}
          /\ known' \in [DOMAIN known \cup {step} -> Values]
      BY <1>1, <1>5, <2>1 DEF Save
    <2>4. trainPc' \in Training
      BY <1>3, <1>5 DEF Save
    <2>5. /\ setup' = setup /\ stateLog' = stateLog /\ step' = step /\ victims' = victims
          /\ kills' = kills /\ cut' = cut
      BY <1>5 DEF Save
    <2> QED  BY <1>1, <2>1, <2>2, <2>3, <2>4, <2>5 DEF KeeperType
  <1>6. CASE SaveAdapter
    <2>1. step \in Steps
      BY <1>6 DEF SaveAdapter, PlaceInv
    <2>2. dirs' \in [Steps -> {"none", "whole", "partial"}]
      <3>1. CASE dirs' = dirs
        BY <1>1, <3>1
      <3>2. CASE dirs' = [dirs EXCEPT ![step] = IF @ = "none" THEN "partial" ELSE @]
        BY <1>1, <2>1, <3>2
      <3> QED  BY <1>6, <3>1, <3>2 DEF SaveAdapter
    <2>3. trainPc' \in Training
      BY <1>3, <1>6 DEF SaveAdapter
    <2> QED  BY <1>1, <1>6, <2>2, <2>3 DEF SaveAdapter, KeeperType
  <1>7. CASE KeepBestAndLast
    <2>1. ToPrune(OnDisk) \subseteq Steps
      BY DEF ToPrune, OnDisk
    <2>2. victims' \in Seq(Steps)
      BY <1>7, <2>1, AscendingFacts DEF KeepBestAndLast
    <2>3. trainPc' \in Training
      BY <1>7 DEF KeepBestAndLast, Training
    <2> QED  BY <1>1, <1>7, <2>2, <2>3 DEF KeepBestAndLast, KeeperType
  <1>8. CASE Prune
    <2>1. PICK left \in {"none", "partial", dirs[Head(victims)]} :
             /\ dirs' = [dirs EXCEPT ![Head(victims)] = left]
             /\ cut' = (cut \/ (left = "partial" /\ setup.lastN = 0))
      BY <1>8 DEF Prune
    <2>2. Head(victims) \in Steps /\ Tail(victims) \in Seq(Steps)
      BY <1>1, <1>8, HeadTailFacts DEF Prune
    <2>3. dirs' \in [Steps -> {"none", "whole", "partial"}] /\ cut' \in BOOLEAN
      BY <1>1, <2>1, <2>2
    <2> QED  BY <1>1, <1>8, <2>2, <2>3 DEF Prune, KeeperType
  <1>9. CASE EndSave
    <2>1. trainPc' \in Training
      BY <1>3, <1>9 DEF EndSave
    <2> QED  BY <1>1, <1>9, <2>1 DEF EndSave, KeeperType
  <1>10. CASE TrainKill
    <2>1. dirs' \in [Steps -> {"none", "whole", "partial"}] /\ cut' \in BOOLEAN
      <3>1. CASE dirs' = dirs /\ cut' = cut
        BY <1>1, <3>1
      <3>2. CASE trainPc = "save" /\ dirs' = [dirs EXCEPT ![step] = "partial"] /\ cut' = TRUE
        BY <1>1, <3>2
      <3>3. CASE /\ trainPc = "prune" /\ victims # <<>>
                 /\ dirs' = [dirs EXCEPT ![Head(victims)] = "partial"]
                 /\ cut' = (cut \/ setup.lastN = 0)
        BY <1>1, <3>3
      <3> QED  BY <1>10, <3>1, <3>2, <3>3 DEF TrainKill
    <2>2. trainPc' = "down" /\ victims' = <<>> /\ kills' = kills + 1
          /\ setup' = setup /\ stateLog' = stateLog /\ dirLog' = dirLog /\ step' = step
          /\ known' = known
      BY <1>10 DEF TrainKill
    <2>3. kills' \in Nat /\ victims' \in Seq(Steps)
      BY <1>1, <2>2
    <2> QED  BY <1>1, <2>1, <2>2, <2>3 DEF KeeperType
  <1>11. CASE Resume
    <2>1. step' \in 0 .. MaxStep /\ trainPc' \in Training
      BY <1>11, LastFacts DEF Resume, Training
    <2>2. stateLog' \in [Steps -> Values]
      <3>1. NoLog \in [Steps -> Values]
        BY DEF NoLog, Values
      <3>2. LastCheckpoint # 0 => dirLog[LastCheckpoint] \in [Steps -> Values]
        BY <1>1, LastFacts
      <3> QED  BY <1>11, <3>1, <3>2 DEF Resume
    <2> QED  BY <1>1, <1>11, <2>1, <2>2 DEF Resume, KeeperType
  <1>12. CASE RefuseRun
    BY <1>1, <1>12 DEF RefuseRun, KeeperType
  <1>13. CASE RemoveBroken
    <2>1. dirs' \in [Steps -> {"none", "whole", "partial"}] /\ cut' \in BOOLEAN
      BY <1>1, <1>13 DEF RemoveBroken
    <2> QED  BY <1>1, <1>13, <2>1 DEF RemoveBroken, KeeperType
  <1> QED  BY <1>4, <1>5, <1>6, <1>7, <1>8, <1>9, <1>10, <1>11, <1>12, <1>13
           DEF KeeperNext, Train, TrainLora

(* Every step keeps what a run resumes from.                               *)
LEMMA ResumeStep ==
  ASSUME ResumeInv, KeeperNext
  PROVE  ResumeInv'
  <1>1. /\ dirs \in [Steps -> {"none", "whole", "partial"}] /\ step \in 0 .. MaxStep
        /\ victims \in Seq(Steps) /\ cut \in BOOLEAN
        /\ trainPc \in {"down", "refused"} \cup Training
        /\ KeeperType /\ KeeperType'
    BY KeeperTypeStep DEF ResumeInv, KeeperType
  <1>2. MaxStep \in Nat /\ Steps = 1 .. MaxStep /\ setup.lastN \in Nat
    BY <1>1, CallbackFacts, KeeperAssumption DEF Steps
  <1>3. PlaceInv /\ BrokenInv /\ VictimInv
    BY DEF ResumeInv
  <1>4. setup' = setup
    BY DEF KeeperNext, TrainStep, Save, SaveAdapter, KeepBestAndLast, Prune, EndSave, TrainKill,
           Train, TrainLora, Resume, RefuseRun, RemoveBroken
  <1>5. /\ NextCallback("save") \in {"adapter", "keep"} /\ NextCallback("adapter") = "keep"
        /\ NextCallback("keep") = "train"
    BY <1>1, CallbackFacts
  <1>6. CASE TrainStep
    <2>1. /\ trainPc = "train" /\ trainPc' = "save" /\ step' = step + 1 /\ step < MaxStep
          /\ dirs' = dirs /\ victims' = victims /\ cut' = cut
      BY <1>6 DEF TrainStep
    <2>2. OnDisk' = OnDisk
      BY <2>1 DEF OnDisk
    <2>3. \A s \in OnDisk : s <= step /\ s \in Nat
      BY <1>2, <1>3, <2>1 DEF PlaceInv, Training, OnDisk
    <2>4. step + 1 \in Steps /\ step + 1 \notin OnDisk
      BY <1>1, <1>2, <2>1, <2>3
    <2>5. PlaceInv'
      BY <1>1, <1>2, <2>1, <2>2, <2>3, <2>4 DEF PlaceInv, OnDisk
    <2>6. BrokenInv'
      BY <1>3, <1>4, <2>1 DEF BrokenInv, Covered, Leftover
    <2>7. VictimInv'
      BY <1>3, <2>1 DEF VictimInv
    <2> QED  BY <1>1, <2>5, <2>6, <2>7 DEF ResumeInv
  <1>7. CASE Save
    <2>1. /\ trainPc = "save" /\ trainPc' \in {"adapter", "keep"} /\ step' = step /\ step \in Steps
          /\ dirs' = [dirs EXCEPT ![step] = "whole"] /\ victims' = victims /\ cut' = cut
      BY <1>3, <1>5, <1>7 DEF Save, PlaceInv
    <2>2. OnDisk' = OnDisk \cup {step} /\ dirs'[step] = "whole"
      BY <1>1, <2>1 DEF OnDisk
    <2>3. \A s \in OnDisk' : s <= step
      BY <1>1, <1>3, <2>1, <2>2 DEF PlaceInv, Training
    <2>4. PlaceInv'
      BY <2>1, <2>2, <2>3 DEF PlaceInv
    <2>5. BrokenInv'
      BY <1>1, <1>3, <1>4, <2>1 DEF BrokenInv, Covered, Leftover
    <2>6. VictimInv'
      BY <1>3, <2>1 DEF VictimInv
    <2> QED  BY <1>1, <2>4, <2>5, <2>6 DEF ResumeInv
  <1>8. CASE SaveAdapter
    <2>1. /\ trainPc = "adapter" /\ trainPc' = "keep" /\ step' = step /\ step \in Steps
          /\ victims' = victims /\ cut' = cut /\ dirs[step] = "whole"
      BY <1>3, <1>5, <1>8 DEF SaveAdapter, PlaceInv
    <2>2. dirs' = dirs
      <3>1. [dirs EXCEPT ![step] = IF @ = "none" THEN "partial" ELSE @] = dirs
        BY <1>1, <2>1
      <3> QED  BY <1>8, <3>1 DEF SaveAdapter
    <2>3. PlaceInv'
      BY <1>3, <2>1, <2>2 DEF PlaceInv, OnDisk, Training
    <2>4. BrokenInv'
      BY <1>3, <1>4, <2>1, <2>2 DEF BrokenInv, Covered, Leftover
    <2>5. VictimInv'
      BY <1>3, <2>1, <2>2 DEF VictimInv
    <2> QED  BY <1>1, <2>3, <2>4, <2>5 DEF ResumeInv
  <1>9. CASE KeepBestAndLast
    <2>1. /\ trainPc = "keep" /\ trainPc' = "prune" /\ step' = step /\ step \in Steps
          /\ dirs' = dirs /\ victims' = Ascending(ToPrune(OnDisk)) /\ cut' = cut
          /\ dirs[step] = "whole"
      BY <1>3, <1>9 DEF KeepBestAndLast, PlaceInv
    <2>2. \A s \in OnDisk : s <= step
      BY <1>3, <2>1 DEF PlaceInv, Training
    <2>3. PlaceInv'
      BY <2>1, <2>2 DEF PlaceInv, OnDisk
    <2>4. BrokenInv'
      BY <1>3, <1>4, <2>1 DEF BrokenInv, Covered, Leftover
    <2>5. ToPrune(OnDisk) \subseteq Steps /\ ToPrune(OnDisk) \subseteq OnDisk
      BY DEF ToPrune, OnDisk
    <2>6. ASSUME setup.lastN # 0 PROVE step \notin ToPrune(OnDisk)
      <3>1. step \in OnDisk
        BY <2>1 DEF OnDisk
      <3>2. \A t \in OnDisk : ~(t > step)
        BY <1>2, <2>1, <2>2 DEF OnDisk
      <3>3. {t \in OnDisk : t > step} = {}
        BY <3>2
      <3>4. Cardinality({t \in OnDisk : t > step}) < setup.lastN
        <4>1. Cardinality({t \in OnDisk : t > step}) = 0
          BY <3>3, FS_EmptySet
        <4>2. 0 < setup.lastN
          BY <1>2, <2>6
        <4> QED  BY <4>1, <4>2
      <3> QED  BY <3>1, <3>4 DEF ToPrune, KeepSet, LastSteps
    <2>7. \A k \in DOMAIN victims' : victims'[k] \in ToPrune(OnDisk)
      BY <2>1, <2>5, AscendingFacts
    <2>8. ASSUME NEW k \in DOMAIN victims'
          PROVE  victims'[k] <= step /\ (setup.lastN # 0 => victims'[k] # step)
      BY <2>2, <2>5, <2>6, <2>7, <2>8
    <2>9. VictimInv'
      BY <1>4, <2>1, <2>8 DEF VictimInv
    <2> QED  BY <1>1, <2>3, <2>4, <2>9 DEF ResumeInv
  <1>10. CASE Prune
    <2> DEFINE h == Head(victims)
    <2>1. PICK left \in {"none", "partial", dirs[h]} :
             /\ dirs' = [dirs EXCEPT ![h] = left]
             /\ cut' = (cut \/ (left = "partial" /\ setup.lastN = 0))
      BY <1>10 DEF Prune
    <2>2. /\ trainPc = "prune" /\ trainPc' = "prune" /\ step' = step /\ step \in Steps
          /\ victims' = Tail(victims) /\ victims # <<>>
      BY <1>3, <1>10 DEF Prune, PlaceInv
    <2>3. h \in Steps /\ h = victims[1] /\ 1 \in DOMAIN victims
          /\ \A k \in DOMAIN Tail(victims) : k + 1 \in DOMAIN victims /\ Tail(victims)[k] = victims[k + 1]
      BY <1>1, <2>2
    <2> HIDE DEF h
    <2>4. \A s \in Steps : s # h => dirs'[s] = dirs[s]
      BY <1>1, <2>1, <2>3
    <2>5. dirs'[h] = left
      BY <1>1, <2>1, <2>3
    <2>6. dirs[h] # "none" \/ left \in {"none", "partial"}
      BY <1>1, <2>1, <2>3
    <2>7. ASSUME setup.lastN # 0
          PROVE  h < step /\ dirs[step] = "whole" /\ dirs'[step] = "whole"
      <3>1. h <= step /\ h # step /\ dirs[step] = "whole"
        BY <1>3, <2>2, <2>3, <2>7 DEF VictimInv
      <3> QED  BY <1>2, <2>2, <2>3, <2>4, <3>1
    <2>8. PlaceInv'
      <3>0. h <= step
        BY <1>3, <2>2, <2>3 DEF VictimInv
      <3>1. \A s \in OnDisk' : s <= step
        BY <1>3, <2>2, <2>4, <3>0 DEF PlaceInv, OnDisk, Training
      <3> QED  BY <2>2, <3>1 DEF PlaceInv
    <2>9. BrokenInv'
      <3> SUFFICES ASSUME NEW s \in Steps, dirs'[s] = "partial"
                   PROVE  (setup.lastN = 0 => cut' = TRUE) /\ (setup.lastN # 0 => Covered(s)')
        BY <1>4 DEF BrokenInv
      <3>1. CASE setup.lastN = 0
        BY <1>1, <1>3, <2>1, <2>4, <2>5, <3>1 DEF BrokenInv
      <3>2. CASE setup.lastN # 0
        <4>1. s < step
          <5>1. s # step
            BY <2>7, <3>2
          <5>2. s \in OnDisk'
            BY DEF OnDisk
          <5> QED  BY <1>2, <2>2, <2>8, <5>1, <5>2 DEF PlaceInv, Training
        <4> QED  BY <1>2, <2>2, <2>7, <3>2, <4>1 DEF Covered
      <3> QED  BY <3>1, <3>2
    <2>10. VictimInv'
      <3>1. \A k \in DOMAIN victims' :
               victims'[k] <= step /\ (setup.lastN # 0 => victims'[k] # step)
        BY <1>3, <2>2, <2>3 DEF VictimInv
      <3> QED  BY <1>4, <2>2, <2>7, <3>1 DEF VictimInv
    <2> QED  BY <1>1, <2>8, <2>9, <2>10 DEF ResumeInv

  <1>11. CASE EndSave
    <2>1. /\ trainPc = "prune" /\ trainPc' = "train" /\ step' = step /\ dirs' = dirs
          /\ victims = <<>> /\ victims' = victims /\ cut' = cut
      BY <1>5, <1>11 DEF EndSave
    <2>2. PlaceInv'
      BY <1>3, <2>1 DEF PlaceInv, OnDisk, Training
    <2>3. BrokenInv'
      BY <1>3, <1>4, <2>1 DEF BrokenInv, Covered, Leftover
    <2>4. VictimInv'
      BY <2>1 DEF VictimInv
    <2> QED  BY <1>1, <2>2, <2>3, <2>4 DEF ResumeInv
  <1>12. CASE TrainKill
    <2>1. /\ trainPc \in Training /\ trainPc' = "down" /\ step' = step /\ victims' = <<>>
      BY <1>1, <1>12 DEF TrainKill
    <2>2. PlaceInv' /\ VictimInv'
      BY <2>1 DEF PlaceInv, VictimInv, Training
    <2>3. \A s \in Steps : dirs[s] = "partial" =>
             (setup.lastN = 0 => cut = TRUE) /\ (setup.lastN # 0 => Covered(s))
      BY <1>3, <2>1 DEF BrokenInv, Leftover, Training
    <2>10. ASSUME NEW s \in Steps, dirs'[s] = "partial"
           PROVE  (setup.lastN = 0 => cut' = TRUE)
                  /\ (setup.lastN # 0 => Covered(s)' \/ Leftover(s)')
      <3>4. CASE dirs' = dirs /\ cut' = cut
        <4>1. Covered(s) => Covered(s)'
          BY <3>4 DEF Covered
        <4>2. dirs[s] = "partial"
          BY <3>4, <2>10
        <4> QED  BY <2>3, <3>4, <4>1, <4>2
      <3>5. CASE trainPc = "save" /\ dirs' = [dirs EXCEPT ![step] = "partial"] /\ cut' = TRUE
        <4>1. step \in Steps /\ dirs[step] = "none" /\ dirs'[step] = "partial"
              /\ \A r \in Steps : r # step => dirs'[r] = dirs[r]
          BY <1>1, <1>3, <3>5 DEF PlaceInv
        <4>2. Covered(s) => Covered(s)'
          BY <4>1 DEF Covered
        <4>3. \A t \in OnDisk' : t <= step
          BY <1>2, <1>3, <2>1, <4>1 DEF PlaceInv, OnDisk
        <4>5. CASE s = step
          <5>1. Leftover(s)'
            BY <2>1, <3>5, <4>3, <4>5 DEF Leftover
          <5>2. cut' = TRUE
            BY <3>5
          <5> QED  BY <5>1, <5>2
        <4>6. CASE s # step
          <5>1. dirs[s] = "partial"
            BY <2>10, <4>1, <4>6
          <5> QED  BY <2>3, <3>5, <4>2, <5>1
        <4> QED  BY <4>5, <4>6
      <3>6. CASE /\ trainPc = "prune" /\ victims # <<>>
                 /\ dirs' = [dirs EXCEPT ![Head(victims)] = "partial"]
                 /\ cut' = (cut \/ setup.lastN = 0)
        <4> DEFINE h == Head(victims)
        <4>1. h \in Steps /\ h = victims[1] /\ 1 \in DOMAIN victims /\ step \in Steps
          BY <1>1, <1>3, <3>6 DEF PlaceInv
        <4>2. dirs' = [dirs EXCEPT ![h] = "partial"]
          BY <3>6
        <4>3. h <= step /\ (setup.lastN # 0 => h # step /\ dirs[step] = "whole")
          BY <1>3, <3>6, <4>1 DEF VictimInv
        <4> HIDE DEF h
        <4>4. \A r \in Steps : r # h => dirs'[r] = dirs[r]
          BY <1>1, <4>1, <4>2
        <4>5. \A r \in Steps : dirs'[r] = "partial" => r <= step
          BY <1>2, <1>3, <2>1, <4>3, <4>4 DEF PlaceInv, OnDisk
        <4>6. CASE setup.lastN # 0
          <5>1. dirs'[step] = "whole" /\ s # step /\ s <= step
            BY <2>10, <4>1, <4>3, <4>4, <4>5, <4>6
          <5>2. Covered(s)'
            BY <1>2, <4>1, <5>1 DEF Covered
          <5> QED  BY <4>6, <5>2
        <4>7. CASE setup.lastN = 0
          <5>1. cut' = TRUE
            BY <3>6, <4>7
          <5> QED  BY <4>7, <5>1
        <4> QED  BY <4>6, <4>7
      <3> QED  BY <1>12, <3>4, <3>5, <3>6 DEF TrainKill
    <2>11. BrokenInv'
      BY <1>4, <2>10 DEF BrokenInv
    <2> QED  BY <1>1, <2>2, <2>11 DEF ResumeInv
  <1>13. CASE Resume
    <2>1. /\ trainPc = "down" /\ trainPc' = "train" /\ step' = LastCheckpoint /\ dirs' = dirs
          /\ victims' = victims /\ cut' = cut
          /\ LastCheckpoint # 0 => dirs[LastCheckpoint] = "whole"
      BY <1>13 DEF Resume
    <2>2. /\ OnDisk = {} <=> LastCheckpoint = 0
          /\ OnDisk # {} => LastCheckpoint \in OnDisk /\ \A s \in OnDisk : s <= LastCheckpoint
          /\ LastCheckpoint # 0 => LastCheckpoint \in Steps
      BY <1>1, LastFacts
    <2>3. PlaceInv'
      <3>1. OnDisk' = OnDisk
        BY <2>1 DEF OnDisk
      <3>2. \A s \in OnDisk' : s <= step'
        BY <2>1, <2>2, <3>1
      <3> QED  BY <2>1, <3>2 DEF PlaceInv
    <2>4. ASSUME NEW s \in Steps, dirs[s] = "partial", Leftover(s) PROVE FALSE
      <3>1. s \in OnDisk
        BY <2>4 DEF OnDisk
      <3>2. LastCheckpoint <= s /\ s <= LastCheckpoint /\ LastCheckpoint \in Steps
        BY <2>2, <2>4, <3>1 DEF Leftover
      <3>3. s = LastCheckpoint
        BY <1>2, <3>2
      <3> QED  BY <1>2, <2>1, <2>4, <3>2, <3>3
    <2>5. BrokenInv'
      BY <1>3, <1>4, <2>1, <2>4 DEF BrokenInv, Covered
    <2>6. VictimInv'
      BY <1>3, <2>1 DEF VictimInv
    <2> QED  BY <1>1, <2>3, <2>5, <2>6 DEF ResumeInv
  <1>14. CASE RefuseRun
    <2>1. /\ trainPc = "down" /\ trainPc' = "refused" /\ step' = step /\ dirs' = dirs
          /\ victims' = victims /\ cut' = cut
      BY <1>14 DEF RefuseRun
    <2>2. PlaceInv' /\ VictimInv'
      BY <1>3, <2>1 DEF PlaceInv, VictimInv, Training
    <2>3. BrokenInv'
      BY <1>3, <1>4, <2>1 DEF BrokenInv, Covered, Leftover, OnDisk
    <2> QED  BY <1>1, <2>2, <2>3 DEF ResumeInv
  <1>15. CASE RemoveBroken
    <2>1. /\ trainPc = "down" /\ trainPc' = trainPc /\ step' = step /\ victims' = victims
          /\ LastCheckpoint # 0 /\ dirs[LastCheckpoint] = "partial"
          /\ dirs' = [dirs EXCEPT ![LastCheckpoint] = "none"]
          /\ cut' = (setup.lastN = 0 /\ \E s \in OnDisk \ {LastCheckpoint} : dirs[s] = "partial")
      BY <1>15 DEF RemoveBroken
    <2>2. /\ LastCheckpoint \in OnDisk /\ \A s \in OnDisk : s <= LastCheckpoint
          /\ LastCheckpoint \in Steps
      BY <1>1, <2>1, LastFacts
    <2>3. PlaceInv' /\ VictimInv'
      BY <1>3, <2>1 DEF PlaceInv, VictimInv, Training
    <2>4. /\ dirs'[LastCheckpoint] = "none"
          /\ \A s \in Steps : s # LastCheckpoint => dirs'[s] = dirs[s]
      BY <1>1, <2>1, <2>2
    <2>5. ASSUME NEW s \in Steps, dirs'[s] = "partial"
          PROVE  (setup.lastN = 0 => cut' = TRUE) /\ (setup.lastN # 0 => Covered(s)')
      <3>1. s # LastCheckpoint /\ dirs[s] = "partial" /\ s \in OnDisk
        BY <2>4, <2>5 DEF OnDisk
      <3>2. CASE setup.lastN = 0
        BY <2>1, <3>1, <3>2
      <3>3. CASE setup.lastN # 0
        <4>1. ~Leftover(s)
          <5>1. ~(LastCheckpoint <= s)
            BY <1>2, <2>2, <3>1
          <5> QED  BY <2>2, <5>1 DEF Leftover
        <4>2. PICK t \in Steps : t > s /\ dirs[t] = "whole"
          BY <1>3, <3>1, <3>3, <4>1 DEF BrokenInv, Covered
        <4>3. dirs'[t] = "whole"
          BY <2>1, <2>4, <4>2
        <4> QED  BY <3>3, <4>2, <4>3 DEF Covered
      <3> QED  BY <3>2, <3>3
    <2>6. BrokenInv'
      BY <1>4, <2>5 DEF BrokenInv
    <2> QED  BY <1>1, <2>3, <2>6 DEF ResumeInv
  <1> QED  BY <1>6, <1>7, <1>8, <1>9, <1>10, <1>11, <1>12, <1>13, <1>14, <1>15
           DEF KeeperNext, Train, TrainLora


(* A run resumes from a whole checkpoint: the invariant is inductive.        *)
THEOREM ResumeInductive == KeeperSpec => []ResumeInv
  <1>1. ASSUME KeeperInit PROVE ResumeInv
    <2>1. /\ setup \in Setups /\ dirs = [s \in Steps |-> "none"] /\ stateLog = NoLog
          /\ dirLog = [s \in Steps |-> NoLog] /\ step = 0 /\ trainPc = "down"
          /\ victims = <<>> /\ kills = 0 /\ known = [s \in {} |-> 0] /\ cut = FALSE
      BY <1>1 DEF KeeperInit
    <2>2. NoLog \in [Steps -> Values] /\ MaxStep \in Nat
      BY KeeperAssumption DEF NoLog, Values
    <2>3. DOMAIN known = {} /\ known \in [DOMAIN known -> Values]
      BY <2>1
    <2>4. KeeperType
      <3>1. dirs \in [Steps -> {"none", "whole", "partial"}] /\ victims \in Seq(Steps)
        BY <2>1
      <3>2. stateLog \in [Steps -> Values] /\ dirLog \in [Steps -> [Steps -> Values]]
        BY <2>1, <2>2
      <3>3. step \in 0 .. MaxStep /\ kills \in Nat /\ cut \in BOOLEAN
        <4>1. step \in 0 .. MaxStep /\ kills \in Nat
          BY <2>1, <2>2
        <4>2. cut \in BOOLEAN
          BY <2>1, Zenon
        <4> QED  BY <4>1, <4>2
      <3>4. setup \in Setups /\ trainPc \in {"down", "refused"} \cup Training
        BY <2>1
      <3>5. DOMAIN known \subseteq Steps
        BY <2>3
      <3> QED  BY <2>3, <3>1, <3>2, <3>3, <3>4, <3>5 DEF KeeperType
    <2>5. PlaceInv /\ BrokenInv /\ VictimInv
      BY <2>1 DEF PlaceInv, BrokenInv, VictimInv, Training
    <2> QED  BY <2>4, <2>5 DEF ResumeInv
  <1>2. ASSUME ResumeInv, UNCHANGED keeperVars PROVE ResumeInv'
    <2>1. /\ setup' = setup /\ dirs' = dirs /\ stateLog' = stateLog /\ dirLog' = dirLog
          /\ step' = step /\ trainPc' = trainPc /\ victims' = victims /\ kills' = kills
          /\ known' = known /\ cut' = cut
      BY <1>2 DEF keeperVars
    <2> QED  BY <1>2, <2>1
             DEF ResumeInv, KeeperType, PlaceInv, BrokenInv, VictimInv, Covered, Leftover, OnDisk
  <1>3. ResumeInv /\ [KeeperNext]_keeperVars => ResumeInv'
    BY <1>2, ResumeStep
  <1> QED  BY <1>1, <1>3, PTL DEF KeeperSpec

(* Unless a save was cut, or last_n is 0, a run finds the newest checkpoint    *)
(* whole, whatever was killed or failed before.                              *)
THEOREM KeeperResumes == KeeperSpec => []ResumesFromWhole
  BY ResumeInductive, ResumeSound, PTL

(* The best of all that was ever saved, and what ranks them.                 *)
Evaluated == {t \in DOMAIN known : known[t] # NoMetric}
Best == BestSteps(Evaluated, known)
Betters(S, m, s) == {t \in S : m[t] < m[s] \/ (m[t] = m[s] /\ t < s)}

(* What is on disk, or was when its removal began, is logged alike in every  *)
(* whole checkpoint at or after it, and in the log of a run.                 *)
Seen == OnDisk \cup {victims[k] : k \in DOMAIN victims}
LogInv ==
    /\ \A n \in Steps : dirs[n] = "whole" =>
         \A t \in Seen : t <= n => t \in DOMAIN known /\ dirLog[n][t] = known[t]
    /\ trainPc \in Training => \A t \in Seen : t \in DOMAIN known /\ stateLog[t] = known[t]

(* The best are whole, and none of them is about to be removed.              *)
WholeInv ==
    /\ \A s \in Best : dirs[s] = "whole"
    /\ \A k \in DOMAIN victims : victims[k] \notin Best

BestInv == ResumeInv /\ LogInv /\ WholeInv

(* The best are those with few that are better.                            *)
LEMMA BestIs ==
  ASSUME NEW S, NEW m
  PROVE  BestSteps(S, m) = {s \in S : Cardinality(Betters(S, m, s)) < setup.bestK}
  BY DEF BestSteps, Betters

(* Whoever has no more betters than one of the best is among the best.       *)
LEMMA FewerBetter ==
  ASSUME NEW S \in SUBSET Steps, NEW T \in SUBSET Steps, NEW m, NEW n, KeeperType,
         NEW s \in S, NEW r \in BestSteps(T, n), Betters(S, m, s) \subseteq Betters(T, n, r)
  PROVE  s \in BestSteps(S, m)
  <1>1. MaxStep \in Nat /\ setup.bestK \in Nat
    BY KeeperAssumption, CallbackFacts
  <1>2. IsFiniteSet(Steps)
    <2>1. 1 \in Int /\ MaxStep \in Int
      BY <1>1
    <2> QED  BY <2>1, FS_Interval DEF Steps
  <1> DEFINE A == Betters(S, m, s)
             B == Betters(T, n, r)
  <1>3. A \subseteq Steps /\ B \subseteq Steps /\ A \subseteq B
    BY DEF Betters
  <1>4. Cardinality(B) < setup.bestK
    BY BestIs
  <1> HIDE DEF A, B
  <1>5. IsFiniteSet(A) /\ IsFiniteSet(B)
    BY <1>2, <1>3, FS_Subset
  <1>6. Cardinality(A) <= Cardinality(B) /\ Cardinality(A) \in Nat /\ Cardinality(B) \in Nat
    BY <1>3, <1>5, FS_Subset, FS_CardinalityType
  <1>7. Cardinality(A) < setup.bestK
    BY <1>1, <1>4, <1>6
  <1> QED  BY <1>7, BestIs DEF A

(* A save lets no one else in among the best.                                *)
LEMMA BestSaved ==
  ASSUME KeeperType, KeeperType', Save, step \in Steps, step \notin Best
  PROVE  \A s \in Best' : s # step => s \in Best
  <1>1. /\ setup' = setup /\ step' = step
        /\ known' = [s \in DOMAIN known \cup {step} |->
                       IF s = step THEN stateLog[step] ELSE known[s]]
    BY DEF Save
  <1>2. /\ DOMAIN known' = DOMAIN known \cup {step} /\ DOMAIN known \subseteq Steps
        /\ \A t \in DOMAIN known : t # step => known'[t] = known[t]
    BY <1>1 DEF KeeperType
  <1>3. \A t \in Evaluated : known[t] \in Nat /\ t \in Nat /\ t \in Steps
    BY KeeperAssumption DEF KeeperType, Evaluated, Values, Steps
  <1>4. Evaluated' \subseteq Steps /\ Evaluated \subseteq Steps
    BY <1>2 DEF Evaluated, KeeperType
  <1>5. \A t \in Evaluated' : t # step => t \in Evaluated /\ known'[t] = known[t]
    BY <1>2 DEF Evaluated
  <1>6. \A t \in Evaluated : t # step => t \in Evaluated' /\ known'[t] = known[t]
    BY <1>2 DEF Evaluated
  <1>7. Best' = BestSteps(Evaluated', known')
    BY <1>1 DEF Best, BestSteps
  <1> SUFFICES ASSUME NEW s \in Best', s # step PROVE s \in Best
    OBVIOUS
  <1>8. s \in Evaluated /\ s \in Evaluated' /\ known'[s] = known[s]
    BY <1>5, <1>7 DEF BestSteps
  <1>9. Betters(Evaluated, known, s) \ {step} \subseteq Betters(Evaluated', known', s)
    BY <1>6, <1>8 DEF Betters
  <1>10. CASE step \notin Betters(Evaluated, known, s)
    <2>1. Betters(Evaluated, known, s) \subseteq Betters(Evaluated', known', s)
      BY <1>9, <1>10
    <2> QED  BY <1>4, <1>7, <1>8, <2>1, FewerBetter DEF Best
  <1>11. CASE step \in Betters(Evaluated, known, s)
    <2>1. step \in Evaluated /\ (known[step] < known[s] \/ (known[step] = known[s] /\ step < s))
      BY <1>11 DEF Betters
    <2>2. Betters(Evaluated, known, step) \subseteq Betters(Evaluated, known, s) \ {step}
      <3> SUFFICES ASSUME NEW t \in Betters(Evaluated, known, step)
                   PROVE  t \in Betters(Evaluated, known, s) /\ t # step
        OBVIOUS
      <3>1. t \in Evaluated /\ (known[t] < known[step] \/ (known[t] = known[step] /\ t < step))
        BY DEF Betters
      <3>2. /\ known[t] \in Nat /\ known[step] \in Nat /\ known[s] \in Nat
            /\ t \in Nat /\ step \in Nat /\ s \in Nat
        BY <1>3, <1>8, <2>1, <3>1
      <3>3. (known[t] < known[s] \/ (known[t] = known[s] /\ t < s)) /\ t # step
        BY <2>1, <3>1, <3>2
      <3> QED  BY <3>1, <3>3 DEF Betters
    <2>3. Betters(Evaluated, known, step) \subseteq Betters(Evaluated', known', s)
      BY <1>9, <2>2
    <2>4. step \in BestSteps(Evaluated, known)
      BY <1>4, <1>7, <2>1, <2>3, FewerBetter
    <2> QED  BY <2>4 DEF Best
  <1> QED  BY <1>10, <1>11


(* Every step keeps the best and the logs that rank them.                    *)
LEMMA BestStep ==
  ASSUME BestInv, KeeperNext, ResumeInv'
  PROVE  BestInv'
  <1>1. /\ KeeperType /\ KeeperType' /\ PlaceInv /\ VictimInv /\ VictimInv' /\ LogInv /\ WholeInv
        /\ dirs \in [Steps -> {"none", "whole", "partial"}] /\ victims \in Seq(Steps)
        /\ DOMAIN known \subseteq Steps
    BY DEF BestInv, ResumeInv, KeeperType
  <1>2. MaxStep \in Nat /\ Steps = 1 .. MaxStep
    BY KeeperAssumption DEF Steps
  <1>3. setup' = setup
    BY DEF KeeperNext, TrainStep, Save, SaveAdapter, KeepBestAndLast, Prune, EndSave, TrainKill,
           Train, TrainLora, Resume, RefuseRun, RemoveBroken
  <1>4. Best \subseteq DOMAIN known /\ Best \subseteq Steps
    BY <1>1 DEF Best, BestSteps, Evaluated
  <1>5. Seen \subseteq Steps /\ OnDisk \subseteq Seen /\ \A k \in DOMAIN victims : victims[k] \in Seen
    BY <1>1 DEF Seen, OnDisk
  <1>6. victims = <<>> => Seen = OnDisk
    BY DEF Seen
  <1>7. victims' = <<>> => Seen' = OnDisk'
    BY DEF Seen
  <1>8. ASSUME known' = known PROVE Best' = Best
    BY <1>3, <1>8 DEF Best, BestSteps, Evaluated
  (* The steps that write no checkpoint, and no log of one: what is whole    *)
  (* was whole, and what is seen was seen.                                   *)
  <1>9. ASSUME known' = known, dirLog' = dirLog, trainPc' \in Training => trainPc \in Training,
               stateLog' = stateLog, Seen' \subseteq Seen,
               \A n \in Steps : dirs'[n] = "whole" => dirs[n] = "whole"
        PROVE  LogInv'
    BY <1>1, <1>9 DEF LogInv
  <1>10. CASE TrainStep
    <2>1. /\ trainPc = "train" /\ trainPc' = "save" /\ step \in Nat
          /\ \E m \in Values : stateLog' = [stateLog EXCEPT ![step + 1] = m]
          /\ dirs' = dirs /\ victims' = victims /\ dirLog' = dirLog /\ known' = known
      <3>1. step \in Nat
        BY <1>1, <1>2 DEF KeeperType
      <3>2. \E m \in Values : stateLog' = [stateLog EXCEPT ![step + 1] = m]
        BY <1>10 DEF TrainStep, Values
      <3> QED  BY <1>10, <3>1, <3>2 DEF TrainStep
    <2>2. victims = <<>> /\ Seen = OnDisk /\ Seen' = OnDisk
      <3>1. victims = <<>>
        BY <1>1, <2>1 DEF VictimInv
      <3> QED  BY <1>6, <1>7, <2>1, <3>1 DEF OnDisk
    <2>3. \A t \in OnDisk : t # step + 1 /\ t \in Steps
      BY <1>1, <1>2, <2>1 DEF PlaceInv, Training, OnDisk
    <2>4. \A t \in OnDisk : stateLog'[t] = stateLog[t]
      BY <1>1, <2>1, <2>3 DEF KeeperType
    <2>5. LogInv'
      BY <1>1, <2>1, <2>2, <2>4 DEF LogInv, Training
    <2>6. WholeInv'
      BY <1>1, <1>8, <2>1 DEF WholeInv
    <2> QED  BY <2>5, <2>6 DEF BestInv
  <1>11. CASE Save
    <2>1. /\ trainPc = "save" /\ step' = step /\ step \in Steps /\ dirs[step] = "none"
          /\ dirs' = [dirs EXCEPT ![step] = "whole"] /\ victims' = victims
          /\ dirLog' = [dirLog EXCEPT ![step] = stateLog] /\ stateLog' = stateLog
          /\ known' = [s \in DOMAIN known \cup {step} |->
                         IF s = step THEN stateLog[step] ELSE known[s]]
      BY <1>1, <1>11 DEF Save, PlaceInv
    <2>2. victims = <<>> /\ Seen = OnDisk /\ Seen' = OnDisk \cup {step}
      <3>1. victims = <<>>
        BY <1>1, <2>1 DEF VictimInv
      <3>2. OnDisk' = OnDisk \cup {step}
        BY <1>1, <2>1 DEF OnDisk
      <3> QED  BY <1>6, <1>7, <2>1, <3>1, <3>2
    <2>3. /\ dirs'[step] = "whole" /\ dirLog'[step] = stateLog
          /\ \A s \in Steps : s # step => dirs'[s] = dirs[s] /\ dirLog'[s] = dirLog[s]
      BY <1>1, <2>1 DEF KeeperType
    <2>4. /\ DOMAIN known' = DOMAIN known \cup {step} /\ known'[step] = stateLog[step]
          /\ \A s \in DOMAIN known : s # step => known'[s] = known[s]
      BY <2>1
    <2>5. \A s \in OnDisk : s < step /\ s \in Steps
      <3>1. \A s \in OnDisk : s <= step /\ s # step /\ s \in Steps
        BY <1>1, <2>1 DEF PlaceInv, Training, OnDisk
      <3> QED  BY <1>2, <2>1, <3>1
    <2>6. \A t \in Seen' : t \in DOMAIN known' /\ stateLog[t] = known'[t]
      BY <1>1, <2>1, <2>2, <2>4, <2>5 DEF LogInv, Training
    <2>7. ASSUME NEW n \in Steps, dirs'[n] = "whole", NEW t \in Seen', t <= n
          PROVE  t \in DOMAIN known' /\ dirLog'[n][t] = known'[t]
      <3>1. CASE n = step
        BY <2>3, <2>6, <2>7, <3>1
      <3>2. CASE n # step
        <4>1. n \in OnDisk /\ dirs[n] = "whole" /\ n < step
          BY <2>3, <2>5, <2>7, <3>2 DEF OnDisk
        <4>2. t \in OnDisk /\ t # step
          BY <1>2, <2>1, <2>2, <2>7, <4>1
        <4>3. t \in DOMAIN known /\ dirLog[n][t] = known[t]
          BY <1>1, <2>2, <2>7, <4>1, <4>2 DEF LogInv
        <4> QED  BY <2>3, <2>4, <3>2, <4>2, <4>3
      <3> QED  BY <3>1, <3>2
    <2>8. LogInv'
      BY <2>1, <2>6, <2>7 DEF LogInv
    <2>9. step \notin Best
      BY <1>1, <2>1 DEF WholeInv
    <2>10. \A s \in Best' : s # step => s \in Best
      BY <1>1, <1>11, <2>1, <2>9, BestSaved
    <2>11. WholeInv'
      <3>1. \A s \in Best' : dirs'[s] = "whole"
        BY <1>1, <1>4, <2>3, <2>10 DEF WholeInv
      <3> QED  BY <2>1, <2>2, <3>1 DEF WholeInv
    <2> QED  BY <2>8, <2>11 DEF BestInv
  <1>12. CASE SaveAdapter
    <2>1. /\ trainPc = "adapter" /\ step \in Steps /\ victims' = victims /\ dirs[step] = "whole"
          /\ known' = known /\ dirLog' = dirLog /\ stateLog' = stateLog
      BY <1>1, <1>12 DEF SaveAdapter, PlaceInv
    <2>2. dirs' = dirs
      <3>1. [dirs EXCEPT ![step] = IF @ = "none" THEN "partial" ELSE @] = dirs
        BY <1>1, <2>1
      <3> QED  BY <1>12, <3>1 DEF SaveAdapter
    <2>3. Seen' = Seen
      BY <2>1, <2>2 DEF Seen, OnDisk
    <2>4. LogInv'
      BY <1>9, <2>1, <2>2, <2>3 DEF Training
    <2>5. WholeInv'
      BY <1>1, <1>8, <2>1, <2>2 DEF WholeInv
    <2> QED  BY <2>4, <2>5 DEF BestInv
  <1>13. CASE KeepBestAndLast
    <2>1. /\ trainPc = "keep" /\ dirs' = dirs /\ victims' = Ascending(ToPrune(OnDisk))
          /\ known' = known /\ dirLog' = dirLog /\ stateLog' = stateLog
      BY <1>13 DEF KeepBestAndLast
    <2>2. ToPrune(OnDisk) \subseteq Steps /\ ToPrune(OnDisk) \subseteq OnDisk
      BY DEF ToPrune, OnDisk
    <2>3. \A k \in DOMAIN victims' : victims'[k] \in ToPrune(OnDisk)
      BY <2>1, <2>2, AscendingFacts
    <2>4. Seen' \subseteq Seen
      BY <1>5, <2>1, <2>2, <2>3 DEF Seen, OnDisk
    <2>5. LogInv'
      BY <1>9, <2>1, <2>4 DEF Training
    <2>6. \A t \in Scored(OnDisk) : t \in Evaluated /\ stateLog[t] = known[t] /\ t \in Steps
      <3>1. \A t \in OnDisk : t \in DOMAIN known /\ stateLog[t] = known[t]
        BY <1>1, <1>5, <2>1 DEF LogInv, Training
      <3> QED  BY <1>1, <3>1 DEF Scored, Evaluated, OnDisk
    <2>7. ASSUME NEW s \in Best PROVE s \notin ToPrune(OnDisk)
      <3>1. s \in OnDisk /\ s \in Evaluated /\ s \in BestSteps(Evaluated, known)
        BY <1>1, <1>4 DEF WholeInv, OnDisk, Best, BestSteps
      <3>2. s \in Scored(OnDisk) /\ stateLog[s] = known[s]
        <4>1. s \in DOMAIN known /\ stateLog[s] = known[s]
          BY <1>1, <1>5, <2>1, <3>1 DEF LogInv, Training
        <4> QED  BY <3>1, <4>1 DEF Scored, Evaluated
      <3>3. Betters(Scored(OnDisk), stateLog, s) \subseteq Betters(Evaluated, known, s)
        BY <2>6, <3>2 DEF Betters
      <3>4. Scored(OnDisk) \subseteq Steps /\ Evaluated \subseteq Steps
        BY <1>1, <2>6 DEF Evaluated
      <3>5. s \in BestSteps(Scored(OnDisk), stateLog)
        BY <1>1, <3>1, <3>2, <3>3, <3>4, FewerBetter
      <3> QED  BY <3>5 DEF ToPrune, KeepSet
    <2>8. WholeInv'
      BY <1>1, <1>8, <2>1, <2>3, <2>7 DEF WholeInv
    <2> QED  BY <2>5, <2>8 DEF BestInv
  <1>14. CASE Prune
    <2> DEFINE h == Head(victims)
    <2>1. PICK left \in {"none", "partial", dirs[h]} : dirs' = [dirs EXCEPT ![h] = left]
      BY <1>14 DEF Prune
    <2>2. /\ trainPc = "prune" /\ trainPc' = "prune" /\ victims' = Tail(victims) /\ victims # <<>>
          /\ known' = known /\ dirLog' = dirLog /\ stateLog' = stateLog
      BY <1>14 DEF Prune
    <2>3. h \in Steps /\ h = victims[1] /\ 1 \in DOMAIN victims
          /\ \A k \in DOMAIN Tail(victims) : k + 1 \in DOMAIN victims /\ Tail(victims)[k] = victims[k + 1]
      BY <1>1, <2>2
    <2> HIDE DEF h
    <2>4. \A s \in Steps : s # h => dirs'[s] = dirs[s]
      BY <1>1, <2>1, <2>3
    <2>5. dirs'[h] = "whole" => dirs[h] = "whole"
      BY <1>1, <2>1, <2>3
    <2>6. h \in Seen /\ h \notin Best
      BY <1>1, <1>5, <2>3 DEF WholeInv
    <2>7. \A k \in DOMAIN victims' : \E j \in DOMAIN victims : victims'[k] = victims[j]
      BY <2>2, <2>3
    <2>8. Seen' \subseteq Seen
      <3>1. OnDisk' \subseteq Seen
        BY <1>5, <2>4, <2>6 DEF OnDisk
      <3>2. \A k \in DOMAIN victims' : victims'[k] \in Seen
        BY <1>5, <2>7
      <3> QED  BY <3>1, <3>2 DEF Seen
    <2>9. LogInv'
      BY <1>9, <2>2, <2>4, <2>5, <2>8 DEF Training
    <2>10. WholeInv'
      <3>1. \A s \in Best : dirs'[s] = "whole"
        BY <1>1, <1>4, <2>4, <2>6 DEF WholeInv
      <3> QED  BY <1>1, <1>8, <2>2, <2>7, <3>1 DEF WholeInv
    <2> QED  BY <2>9, <2>10 DEF BestInv
  <1>15. CASE EndSave
    <2>1. /\ trainPc = "prune" /\ dirs' = dirs /\ victims' = victims
          /\ known' = known /\ dirLog' = dirLog /\ stateLog' = stateLog
      BY <1>15 DEF EndSave
    <2>2. Seen' = Seen
      BY <2>1 DEF Seen, OnDisk
    <2>3. LogInv'
      BY <1>9, <2>1, <2>2 DEF Training
    <2>4. WholeInv'
      BY <1>1, <1>8, <2>1 DEF WholeInv
    <2> QED  BY <2>3, <2>4 DEF BestInv
  <1>16. CASE TrainKill
    <2>1. /\ trainPc' = "down" /\ victims' = <<>> /\ step' = step
          /\ known' = known /\ dirLog' = dirLog /\ stateLog' = stateLog
      BY <1>16 DEF TrainKill
    <2>2. Best' = Best /\ Seen' = OnDisk' /\ trainPc' \notin Training
      BY <1>7, <1>8, <2>1 DEF Training
    <2>3. CASE dirs' = dirs
      <3>1. Seen' \subseteq Seen
        BY <1>5, <2>2, <2>3 DEF OnDisk
      <3>2. LogInv'
        BY <1>9, <2>1, <2>2, <2>3, <3>1
      <3>3. WholeInv'
        BY <1>1, <2>1, <2>2, <2>3 DEF WholeInv
      <3> QED  BY <3>2, <3>3 DEF BestInv
    <2>4. CASE trainPc = "save" /\ dirs' = [dirs EXCEPT ![step] = "partial"]
      <3>1. step \in Steps /\ dirs[step] = "none" /\ dirs'[step] = "partial"
            /\ \A s \in Steps : s # step => dirs'[s] = dirs[s]
        BY <1>1, <2>4 DEF PlaceInv
      <3>2. \A s \in OnDisk : s <= step /\ s # step
        BY <1>1, <2>4, <3>1 DEF PlaceInv, Training, OnDisk
      <3>3. ASSUME NEW n \in Steps, dirs'[n] = "whole", NEW t \in OnDisk', t <= n
            PROVE  t \in DOMAIN known /\ dirLog[n][t] = known[t]
        <4>1. n \in OnDisk /\ dirs[n] = "whole" /\ n <= step /\ n # step
          BY <3>1, <3>2, <3>3 DEF OnDisk
        <4>2. t \in Steps /\ (t # step => t \in OnDisk)
          BY <3>1, <3>3 DEF OnDisk
        <4>3. t # step
          BY <1>2, <3>1, <3>3, <4>1, <4>2
        <4> QED  BY <1>1, <1>5, <3>3, <4>1, <4>2, <4>3 DEF LogInv
      <3>4. LogInv'
        BY <2>1, <2>2, <3>3 DEF LogInv
      <3>5. \A s \in Best : dirs'[s] = "whole"
        BY <1>1, <1>4, <3>1 DEF WholeInv
      <3>6. WholeInv'
        BY <2>1, <2>2, <3>5 DEF WholeInv
      <3> QED  BY <3>4, <3>6 DEF BestInv
    <2>5. CASE victims # <<>> /\ dirs' = [dirs EXCEPT ![Head(victims)] = "partial"]
      <3> DEFINE h == Head(victims)
      <3>1. h \in Steps /\ h = victims[1] /\ 1 \in DOMAIN victims
        BY <1>1, <2>5
      <3>2. dirs' = [dirs EXCEPT ![h] = "partial"]
        BY <2>5
      <3> HIDE DEF h
      <3>3. dirs'[h] = "partial" /\ \A s \in Steps : s # h => dirs'[s] = dirs[s]
        BY <1>1, <3>1, <3>2
      <3>4. h \in Seen /\ h \notin Best
        BY <1>1, <1>5, <3>1 DEF WholeInv
      <3>5. Seen' \subseteq Seen
        BY <1>5, <2>2, <3>3, <3>4 DEF OnDisk
      <3>6. LogInv'
        BY <1>9, <2>1, <2>2, <3>3, <3>5
      <3>7. \A s \in Best : dirs'[s] = "whole"
        BY <1>1, <1>4, <3>3, <3>4 DEF WholeInv
      <3>8. WholeInv'
        BY <2>1, <2>2, <3>7 DEF WholeInv
      <3> QED  BY <3>6, <3>8 DEF BestInv
    <2> QED  BY <1>16, <2>3, <2>4, <2>5 DEF TrainKill
  <1>17. CASE Resume
    <2>1. /\ trainPc = "down" /\ trainPc' = "train" /\ dirs' = dirs
          /\ victims' = victims /\ known' = known /\ dirLog' = dirLog
          /\ LastCheckpoint # 0 => dirs[LastCheckpoint] = "whole"
          /\ stateLog' = IF LastCheckpoint = 0 THEN NoLog ELSE dirLog[LastCheckpoint]
      BY <1>17 DEF Resume
    <2>2. /\ OnDisk = {} <=> LastCheckpoint = 0
          /\ OnDisk # {} => LastCheckpoint \in OnDisk /\ \A s \in OnDisk : s <= LastCheckpoint
          /\ LastCheckpoint # 0 => LastCheckpoint \in Steps
      BY <1>1, LastFacts
    <2>3. victims = <<>> /\ Seen = OnDisk /\ Seen' = OnDisk
      <3>1. victims = <<>>
        BY <1>1, <2>1 DEF VictimInv
      <3> QED  BY <1>6, <1>7, <2>1, <3>1 DEF OnDisk
    <2>4. ASSUME NEW t \in OnDisk PROVE t \in DOMAIN known /\ stateLog'[t] = known[t]
      <3>1. LastCheckpoint # 0 /\ dirs[LastCheckpoint] = "whole" /\ t <= LastCheckpoint
            /\ LastCheckpoint \in Steps
        BY <2>1, <2>2
      <3>2. stateLog' = dirLog[LastCheckpoint]
        BY <2>1, <3>1
      <3> QED  BY <1>1, <2>3, <3>1, <3>2 DEF LogInv
    <2>5. LogInv'
      BY <1>1, <2>1, <2>3, <2>4 DEF LogInv
    <2>6. WholeInv'
      BY <1>1, <1>8, <2>1 DEF WholeInv
    <2> QED  BY <2>5, <2>6 DEF BestInv
  <1>18. CASE RefuseRun
    <2>1. /\ trainPc' = "refused" /\ dirs' = dirs /\ victims' = victims
          /\ known' = known /\ dirLog' = dirLog /\ stateLog' = stateLog
      BY <1>18 DEF RefuseRun
    <2>2. Seen' = Seen
      BY <2>1 DEF Seen, OnDisk
    <2>3. LogInv'
      BY <1>9, <2>1, <2>2 DEF Training
    <2>4. WholeInv'
      BY <1>1, <1>8, <2>1 DEF WholeInv
    <2> QED  BY <2>3, <2>4 DEF BestInv
  <1>19. CASE RemoveBroken
    <2>1. /\ trainPc' = trainPc /\ victims' = victims
          /\ LastCheckpoint # 0 /\ dirs[LastCheckpoint] = "partial"
          /\ dirs' = [dirs EXCEPT ![LastCheckpoint] = "none"]
          /\ known' = known /\ dirLog' = dirLog /\ stateLog' = stateLog
      BY <1>19 DEF RemoveBroken
    <2>2. LastCheckpoint \in Steps
      BY <1>1, <2>1, LastFacts
    <2>3. /\ dirs'[LastCheckpoint] = "none"
          /\ \A s \in Steps : s # LastCheckpoint => dirs'[s] = dirs[s]
      BY <1>1, <2>1, <2>2
    <2>4. Seen' \subseteq Seen
      <3>1. OnDisk' \subseteq OnDisk
        BY <2>3 DEF OnDisk
      <3> QED  BY <2>1, <3>1 DEF Seen
    <2>5. LogInv'
      BY <1>9, <2>1, <2>3, <2>4
    <2>6. WholeInv'
      <3>1. \A s \in Best : dirs'[s] = "whole"
        BY <1>1, <1>4, <2>1, <2>3 DEF WholeInv
      <3> QED  BY <1>1, <1>8, <2>1, <3>1 DEF WholeInv
    <2> QED  BY <2>5, <2>6 DEF BestInv
  <1> QED  BY <1>10, <1>11, <1>12, <1>13, <1>14, <1>15, <1>16, <1>17, <1>18, <1>19
           DEF KeeperNext, Train, TrainLora

(* The best are whole: the invariant is inductive.                           *)
THEOREM BestInductive == KeeperSpec => []BestInv
  <1>1. KeeperSpec => []ResumeInv
    BY ResumeInductive
  <1>2. ASSUME KeeperInit, ResumeInv PROVE BestInv
    <2>1. dirs = [s \in Steps |-> "none"] /\ trainPc = "down" /\ victims = <<>>
          /\ known = [s \in {} |-> 0]
      BY <1>2 DEF KeeperInit
    <2>2. DOMAIN known = {}
      BY <2>1
    <2>3. Best = {}
      BY <2>2 DEF Best, BestSteps, Evaluated
    <2>4. LogInv /\ WholeInv
      BY <2>1, <2>3 DEF LogInv, WholeInv, Training
    <2> QED  BY <1>2, <2>4 DEF BestInv
  <1>3. ASSUME BestInv, UNCHANGED keeperVars, ResumeInv' PROVE BestInv'
    <2>1. /\ setup' = setup /\ dirs' = dirs /\ stateLog' = stateLog /\ dirLog' = dirLog
          /\ step' = step /\ trainPc' = trainPc /\ victims' = victims /\ known' = known
      BY <1>3 DEF keeperVars
    <2>2. Best' = Best /\ Seen' = Seen
      BY <2>1 DEF Best, BestSteps, Evaluated, Seen, OnDisk
    <2> QED  BY <1>3, <2>1, <2>2 DEF BestInv, LogInv, WholeInv
  <1>4. BestInv /\ [KeeperNext]_keeperVars /\ ResumeInv' => BestInv'
    BY <1>3, BestStep
  <1> QED  BY <1>1, <1>2, <1>4, PTL DEF KeeperSpec

(* The best by metric of all that was ever saved are on disk and whole,        *)
(* through kills within a save or a removal and resumes from an earlier step. *)
THEOREM BestKept == KeeperSpec => []BestSurvive
  <1>1. BestInv => BestSurvive
    BY DEF BestInv, WholeInv, BestSurvive, Best, Evaluated
  <1> QED  BY <1>1, BestInductive, PTL

-----------------------------------------------------------------------------
(* Making a merged checkpoint servable.                                    *)

(* The run `training` does this in its part "merge".                       *)
MergeSpec == MergeInit /\ [][MergeNext]_mergeVars

(* What a file, the sidecar and the index hold when they are whole.        *)
Missing == Asked \ Stored
Filled(f, n) ==
    [t \in {u \in Stored : Home(u) = f} |-> [dim |-> DimOf(t[1]), of |-> n]]
ZeroKnorms == [t \in Missing |-> [dim |-> DimOf(t[1]), of |-> 0]]
StoredMap == [t \in Stored |-> Home(t)]
FullMap == [t \in Asked |-> IF t \in Stored THEN Home(t) ELSE SIDECAR]

Indexes == [state : {"none", "torn", "whole"}, map : {NoTensors, StoredMap, FullMap}]

MergeType ==
    /\ ckpt \in Checkpoints
    /\ merges \in Nat /\ saved \in BOOLEAN
    /\ index \in Indexes
    /\ DOMAIN weights \subseteq Files \cup {SIDECAR}

(* A file of weights is whole and of one merge; once a merge has returned,  *)
(* every file there is of it.                                              *)
WeightsInv ==
    /\ \A f \in Files : f \in DOMAIN weights => \E n \in 0 .. merges : weights[f] = Filled(f, n)
    /\ saved => \A f \in Files : f \in DOMAIN weights /\ weights[f] = Filled(f, merges)

(* An index that names the sidecar is there after the sidecar was whole.    *)
SidecarWhole == SIDECAR \in DOMAIN weights /\ weights[SIDECAR] = ZeroKnorms
IndexInv ==
    /\ SIDECAR \in DOMAIN weights => weights[SIDECAR] \in {NoTensors, ZeroKnorms}
    /\ index.state = "whole" =>
         /\ index.map \in {StoredMap, FullMap}
         /\ index.map = FullMap => Missing = {} \/ SidecarWhole

(* Where the command is.                                                   *)
CommandInv ==
    /\ doing = "saving" => ~saved
    /\ doing \in {"planned", "opened", "written", "indexing"} =>
         /\ saved /\ weightMap = StoredMap /\ Missing # {}
         /\ index.state = "whole" => index.map = StoredMap
    /\ doing \in {"written", "indexing"} => SidecarWhole
    /\ doing = "ready" =>
         /\ saved /\ index.state # "torn"
         /\ index.state = "none" => Missing = {}
         /\ index.state = "whole" => index.map = FullMap

MergeInv == MergeType /\ WeightsInv /\ IndexInv /\ CommandInv


(* Which tensors are stored, which are missing, and where their files are.  *)
LEMMA NameFacts ==
  ASSUME ckpt \in Checkpoints
  PROVE  /\ Stored \subseteq Asked /\ SIDECAR \notin Files
         /\ \A t \in Stored : Home(t) \in Files
         /\ DOMAIN StoredMap = Stored /\ DOMAIN FullMap = Asked
         /\ PlanKnorm(StoredMap) = Missing /\ PlanKnorm(FullMap) = {}
         /\ Missing = {} => FullMap = StoredMap
  <1> DEFINE n == Len(ckpt.types)
             Norms == (FirstShared .. n) \X {"k_norm"}
  <1>1. n \in Nat /\ FirstShared \in 1 .. n + 1 /\ Layers = 1 .. n
    <2>1. ckpt.types \in Seq({"full", "sliding"}) /\ ckpt.shared \in 0 .. Len(ckpt.types)
      BY MergeAssumption
    <2> QED  BY <2>1 DEF FirstShared, Layers
  <1>2. Stored \subseteq Asked
    BY DEF Stored
  <1>3. SIDECAR \notin Files /\ \A t \in Stored : Home(t) \in Files
    <2>1. \A t : Home(t) \in {"model", "model-1", "model-2"}
      BY DEF Home
    <2>2. SIDECAR \notin {"model", "model-1", "model-2"}
      BY DEF SIDECAR
    <2> QED  BY <2>1, <2>2 DEF Files
  <1>4. DOMAIN StoredMap = Stored /\ DOMAIN FullMap = Asked
    BY DEF StoredMap, FullMap
  <1> HIDE DEF n
  <1>5. Norms \subseteq Asked
    <2>1. FirstShared .. n \subseteq Layers
      BY <1>1
    <2> QED  BY <2>1 DEF Asked
  <1>6. \A t \in Norms : t[2] = "k_norm" /\ t[1] \in FirstShared .. n
    OBVIOUS
  <1>7. \A t \in Missing : t \in Norms
    <2> TAKE t \in Missing
    <2>1. PICK l \in Layers, p \in {"q_norm", "k_norm"} : t = <<l, p>>
      BY DEF Missing, Asked
    <2>2. t[1] = l /\ t[2] = p
      BY <2>1
    <2>3. p # "q_norm" /\ ~(l < FirstShared)
      BY <2>2 DEF Missing, Stored
    <2>4. p = "k_norm" /\ l \in FirstShared .. n
      BY <1>1, <2>3
    <2> QED  BY <2>1, <2>4
  <1>8. PlanKnorm(StoredMap) = Missing /\ PlanKnorm(FullMap) = {}
    <2>1. PlanKnorm(StoredMap) = {t \in Norms : t \notin Stored}
      BY <1>4 DEF PlanKnorm, n
    <2>2. PlanKnorm(FullMap) = {t \in Norms : t \notin Asked}
      BY <1>4 DEF PlanKnorm, n
    <2> HIDE DEF Norms
    <2>3. {t \in Norms : t \notin Stored} = Missing
      BY <1>5, <1>7 DEF Missing
    <2>4. {t \in Norms : t \notin Asked} = {}
      BY <1>5
    <2> QED  BY <2>1, <2>2, <2>3, <2>4
  <1>9. ASSUME Missing = {} PROVE FullMap = StoredMap
    <2>1. Asked = Stored
      BY <1>2, <1>9 DEF Missing
    <2> QED  BY <2>1 DEF FullMap, StoredMap
  <1> QED  BY <1>2, <1>3, <1>4, <1>8, <1>9

(* The checkpoint stays what it is.                                        *)
LEMMA SameNames ==
  ASSUME ckpt' = ckpt
  PROVE  /\ Stored' = Stored /\ Asked' = Asked /\ Missing' = Missing /\ Files' = Files
         /\ StoredMap' = StoredMap /\ FullMap' = FullMap /\ ZeroKnorms' = ZeroKnorms
         /\ Indexes' = Indexes
         /\ \A f, n : Filled(f, n)' = Filled(f, n)
  <1>1. Stored' = Stored /\ Asked' = Asked
    BY DEF Stored, Asked, Layers, FirstShared
  <1>2. \A t : Home(t)' = Home(t)
    BY DEF Home
  <1>3. \A l : DimOf(l)' = DimOf(l)
    BY DEF DimOf
  <1>4. Missing' = Missing /\ Files' = Files
    BY <1>1, <1>2 DEF Missing, Files
  <1>5. StoredMap' = StoredMap /\ FullMap' = FullMap
    BY <1>1, <1>2 DEF StoredMap, FullMap
  <1>6. ZeroKnorms' = ZeroKnorms
    BY <1>3, <1>4 DEF ZeroKnorms
  <1>7. \A f, n : Filled(f, n)' = Filled(f, n)
    BY <1>1, <1>2, <1>3 DEF Filled
  <1>8. Indexes' = Indexes
    BY <1>5 DEF Indexes, NoTensors
  <1> QED  BY <1>1, <1>4, <1>5, <1>6, <1>7, <1>8

(* The map built from the files of a whole merge.                          *)
LEMMA BuiltFacts ==
  ASSUME MergeType, WeightsInv, saved, NEW held, Files \subseteq held,
         held \subseteq Files \cup {SIDECAR},
         SIDECAR \in held => DOMAIN weights[SIDECAR] = {}
  PROVE  BuiltMap(held) = StoredMap
  <1>1. SIDECAR \notin Files /\ \A t \in Stored : Home(t) \in Files
    BY NameFacts DEF MergeType
  <1>2. \A f \in Files : DOMAIN weights[f] = {u \in Stored : Home(u) = f}
    BY DEF WeightsInv, Filled
  <1>3. \A f \in held : \A t : t \in DOMAIN weights[f] <=> t \in Stored /\ Home(t) = f
    <2> TAKE f \in held
    <2>1. CASE f \in Files
      BY <1>2, <2>1
    <2>2. CASE f = SIDECAR
      BY <1>1, <2>2
    <2> QED  BY <2>1, <2>2
  <1>4. UNION {DOMAIN weights[f] : f \in held} = Stored
    BY <1>1, <1>3
  <1>5. \A t \in Stored : (CHOOSE f \in held : t \in DOMAIN weights[f]) = Home(t)
    BY <1>1, <1>3
  <1> QED  BY <1>4, <1>5 DEF BuiltMap, StoredMap

(* What the command reads as the checkpoint's map.                         *)
LEMMA MapFacts ==
  ASSUME MergeInv, saved, index.state # "torn"
  PROVE  /\ index.state = "whole" => MapOnDisk = index.map
         /\ index.state = "none" => MapOnDisk = StoredMap
         /\ MapOnDisk = StoredMap \/ MapOnDisk = FullMap
         /\ index.state \in {"none", "whole"}
  <1>1. index.state \in {"none", "whole"}
    BY DEF MergeInv, MergeType, Indexes
  <1>2. ASSUME index.state = "none" PROVE MapOnDisk = StoredMap
    <2>1. MapOnDisk = BuiltMap(DOMAIN weights \ {SIDECAR})
      BY <1>2 DEF MapOnDisk
    <2>2. Files \subseteq DOMAIN weights /\ SIDECAR \notin Files
      BY NameFacts DEF MergeInv, MergeType, WeightsInv
    <2> DEFINE fs == DOMAIN weights \ {SIDECAR}
    <2>3. Files \subseteq fs /\ fs \subseteq Files \cup {SIDECAR} /\ SIDECAR \notin fs
      BY <2>2 DEF MergeInv, MergeType
    <2> HIDE DEF fs
    <2>4. BuiltMap(fs) = StoredMap
      BY <2>3, BuiltFacts DEF MergeInv
    <2> QED  BY <2>1, <2>4 DEF fs
  <1>3. index.state = "whole" => MapOnDisk = index.map /\ index.map \in {StoredMap, FullMap}
    BY DEF MapOnDisk, MergeInv, IndexInv
  <1> QED  BY <1>1, <1>2, <1>3

(* The two maps differ where a tensor is missing.                          *)
LEMMA MapsDiffer ==
  ASSUME ckpt \in Checkpoints, FullMap = StoredMap
  PROVE  Missing = {}
  <1>1. DOMAIN StoredMap = Stored /\ DOMAIN FullMap = Asked
    BY NameFacts
  <1>2. Stored = Asked
    BY <1>1
  <1> QED  BY <1>2 DEF Missing

(* A merge begins, writes a file, and ends.                                *)
LEMMA MergeStep ==
  ASSUME MergeInv, StartMerge \/ SaveWeights \/ EndMerge
  PROVE  MergeInv'
  <1>1. ckpt \in Checkpoints /\ merges \in Nat
    BY DEF MergeInv, MergeType
  <1>2. ckpt' = ckpt /\ weightMap' = weightMap
    BY DEF StartMerge, SaveWeights, EndMerge
  <1>3. /\ Stored' = Stored /\ Asked' = Asked /\ Missing' = Missing /\ Files' = Files
        /\ StoredMap' = StoredMap /\ FullMap' = FullMap /\ ZeroKnorms' = ZeroKnorms
        /\ Indexes' = Indexes
        /\ \A f, n : Filled(f, n)' = Filled(f, n)
    BY <1>2, SameNames
  <1>4. CASE StartMerge
    <2>1. /\ doing' = "saving" /\ merges' = merges + 1 /\ saved' = FALSE
          /\ weights' = weights /\ index' = index
      BY <1>4 DEF StartMerge
    <2>2. MergeType'
      <3>1. merges' \in Nat
        BY <1>1, <2>1
      <3>2. saved' \in BOOLEAN
        BY <2>1
      <3>3. index' \in Indexes' /\ DOMAIN weights' \subseteq Files' \cup {SIDECAR}
        BY <1>3, <2>1 DEF MergeInv, MergeType
      <3> QED  BY <1>1, <1>2, <3>1, <3>2, <3>3 DEF MergeType
    <2>3. WeightsInv'
      <3>1. \A n \in 0 .. merges : n \in 0 .. merges + 1
        BY <1>1
      <3>2. \A f \in Files : f \in DOMAIN weights
              => \E n \in 0 .. merges + 1 : weights[f] = Filled(f, n)
        BY <3>1 DEF MergeInv, WeightsInv
      <3> QED  BY <1>3, <2>1, <3>2 DEF WeightsInv
    <2>4. IndexInv'
      BY <1>3, <2>1 DEF MergeInv, IndexInv, SidecarWhole, NoTensors
    <2>5. CommandInv'
      BY <2>1 DEF CommandInv
    <2> QED  BY <2>2, <2>3, <2>4, <2>5 DEF MergeInv
  <1>5. CASE SaveWeights
    <2>1. PICK f \in Unsaved : weights' = With(weights, f, Filled(f, merges))
      BY <1>5 DEF SaveWeights, Filled
    <2>2. /\ doing = "saving" /\ doing' = doing /\ merges' = merges /\ saved' = saved
          /\ index' = index /\ ~saved /\ f \in Files /\ f # SIDECAR
      <3>1. SIDECAR \notin Files
        BY <1>1, NameFacts
      <3> QED  BY <1>5, <2>1, <3>1 DEF SaveWeights, Unsaved, MergeInv, CommandInv
    <2>3. /\ DOMAIN weights' = DOMAIN weights \cup {f}
          /\ weights'[f] = Filled(f, merges)
          /\ \A z \in DOMAIN weights : z # f => weights'[z] = weights[z]
      BY <2>1 DEF With
    <2>4. MergeType'
      BY <1>1, <1>2, <1>3, <2>2, <2>3 DEF MergeInv, MergeType
    <2>5. WeightsInv'
      <3>1. ASSUME NEW g \in Files, g \in DOMAIN weights'
            PROVE  \E n \in 0 .. merges : weights'[g] = Filled(g, n)
        <4>1. CASE g = f
          <5>1. merges \in 0 .. merges
            BY <1>1
          <5> QED  BY <2>3, <4>1, <5>1
        <4>2. CASE g # f
          <5>1. g \in DOMAIN weights /\ weights'[g] = weights[g]
            BY <2>3, <3>1, <4>2
          <5> QED  BY <5>1 DEF MergeInv, WeightsInv
        <4> QED  BY <4>1, <4>2
      <3> QED  BY <1>3, <2>2, <3>1 DEF WeightsInv
    <2>6. /\ SIDECAR \in DOMAIN weights' <=> SIDECAR \in DOMAIN weights
          /\ SIDECAR \in DOMAIN weights => weights'[SIDECAR] = weights[SIDECAR]
      BY <2>2, <2>3
    <2>7. IndexInv'
      BY <1>3, <2>2, <2>6 DEF MergeInv, IndexInv, SidecarWhole, NoTensors
    <2>8. CommandInv'
      BY <2>2 DEF CommandInv
    <2> QED  BY <2>4, <2>5, <2>7, <2>8 DEF MergeInv
  <1>6. CASE EndMerge
    <2>1. /\ doing' = "off" /\ merges' = merges /\ saved' = TRUE /\ weights' = weights
          /\ Unsaved = {}
          /\ index' = index \/ index' = Index("whole", StoredMap)
      BY <1>6 DEF EndMerge, StoredMap
    <2>2. MergeType'
      <3>1. index' \in Indexes
        BY <2>1 DEF MergeInv, MergeType, Indexes, Index
      <3> QED  BY <1>1, <1>2, <1>3, <2>1, <3>1 DEF MergeInv, MergeType
    <2>3. \A f \in Files : f \in DOMAIN weights /\ weights[f] = Filled(f, merges)
      <3> TAKE f \in Files
      <3>1. f \in DOMAIN weights /\ OfThisMerge(f)
        BY <2>1 DEF Unsaved
      <3>2. PICK n \in 0 .. merges : weights[f] = Filled(f, n)
        BY <3>1 DEF MergeInv, WeightsInv
      <3>3. PICK t \in DOMAIN weights[f] : weights[f][t].of = merges
        BY <3>1 DEF OfThisMerge
      <3>4. n = merges
        BY <3>2, <3>3 DEF Filled
      <3> QED  BY <3>1, <3>2, <3>4
    <2>4. WeightsInv'
      <3>1. merges \in 0 .. merges
        BY <1>1
      <3> QED  BY <1>3, <2>1, <2>3, <3>1 DEF WeightsInv
    <2>5. IndexInv'
      <3>1. CASE index' = index
        BY <1>3, <2>1, <3>1 DEF MergeInv, IndexInv, SidecarWhole, NoTensors
      <3>2. CASE index' = Index("whole", StoredMap)
        <4>1. index'.map = StoredMap
          BY <3>2 DEF Index
        <4>2. index'.map = FullMap => Missing = {}
          BY <1>1, <4>1, MapsDiffer
        <4> QED  BY <1>3, <2>1, <4>1, <4>2 DEF MergeInv, IndexInv, SidecarWhole, NoTensors
      <3> QED  BY <2>1, <3>1, <3>2
    <2>6. CommandInv'
      BY <2>1 DEF CommandInv
    <2> QED  BY <2>2, <2>4, <2>5, <2>6 DEF MergeInv
  <1> QED  BY <1>4, <1>5, <1>6

(* The command reads what is there and plans.                              *)
LEMMA PlanStep ==
  ASSUME MergeInv, NEW dry \in BOOLEAN, Plan(dry)
  PROVE  MergeInv'
  <1>1. /\ saved /\ index.state # "torn" /\ ckpt \in Checkpoints
        /\ ckpt' = ckpt /\ merges' = merges /\ saved' = saved /\ weights' = weights
        /\ index' = index /\ weightMap' = MapOnDisk
        /\ doing' \in {"ready", "off", "planned"}
        /\ doing' = "ready" => PlanKnorm(MapOnDisk) = {}
        /\ doing' = "planned" => PlanKnorm(MapOnDisk) # {}
    BY DEF Plan, MergeInv, MergeType
  <1>2. /\ Stored' = Stored /\ Asked' = Asked /\ Missing' = Missing /\ Files' = Files
        /\ StoredMap' = StoredMap /\ FullMap' = FullMap /\ ZeroKnorms' = ZeroKnorms
        /\ Indexes' = Indexes
        /\ \A f, n : Filled(f, n)' = Filled(f, n)
    BY <1>1, SameNames
  <1>3. /\ index.state = "whole" => MapOnDisk = index.map
        /\ index.state = "none" => MapOnDisk = StoredMap
        /\ MapOnDisk = StoredMap \/ MapOnDisk = FullMap
        /\ index.state \in {"none", "whole"}
    BY <1>1, MapFacts
  <1>4. /\ PlanKnorm(StoredMap) = Missing /\ PlanKnorm(FullMap) = {}
        /\ Missing = {} => FullMap = StoredMap
    BY <1>1, NameFacts
  <1>5. MergeType' /\ WeightsInv' /\ IndexInv'
    <2>1. MergeType'
      BY <1>1, <1>2 DEF MergeInv, MergeType
    <2>2. WeightsInv'
      BY <1>1, <1>2 DEF MergeInv, WeightsInv
    <2>3. IndexInv'
      BY <1>1, <1>2 DEF MergeInv, IndexInv, SidecarWhole, NoTensors
    <2> QED  BY <2>1, <2>2, <2>3
  <1>6. CommandInv'
    <2>1. ASSUME doing' = "ready"
          PROVE  /\ index.state = "none" => Missing = {}
                 /\ index.state = "whole" => index.map = FullMap
      BY <1>1, <1>3, <1>4, <2>1
    <2>2. ASSUME doing' = "planned"
          PROVE  MapOnDisk = StoredMap /\ Missing # {}
      BY <1>1, <1>3, <1>4, <2>2
    <2> QED  BY <1>1, <1>2, <1>3, <2>1, <2>2 DEF CommandInv
  <1> QED  BY <1>5, <1>6 DEF MergeInv

(* The sidecar is written.                                                 *)
LEMMA SidecarStep ==
  ASSUME MergeInv, OpenSidecar \/ SaveSidecar
  PROVE  MergeInv'
  <1>1. /\ saved /\ weightMap = StoredMap /\ Missing # {} /\ ckpt \in Checkpoints
        /\ index.state = "whole" => index.map = StoredMap
        /\ ckpt' = ckpt /\ merges' = merges /\ saved' = saved /\ index' = index
        /\ weightMap' = weightMap
        /\ \/ doing' = "opened" /\ weights' = With(weights, SIDECAR, NoTensors)
           \/ doing' = "written" /\ weights' = With(weights, SIDECAR, ZeroKnorms)
    <2>1. saved /\ weightMap = StoredMap /\ Missing # {} /\ ckpt \in Checkpoints
          /\ (index.state = "whole" => index.map = StoredMap)
      BY DEF OpenSidecar, SaveSidecar, MergeInv, MergeType, CommandInv
    <2>2. PlanKnorm(weightMap) = Missing
      BY <2>1, NameFacts
    <2> QED  BY <2>1, <2>2 DEF OpenSidecar, SaveSidecar, ZeroKnorms
  <1>2. /\ Stored' = Stored /\ Asked' = Asked /\ Missing' = Missing /\ Files' = Files
        /\ StoredMap' = StoredMap /\ FullMap' = FullMap /\ ZeroKnorms' = ZeroKnorms
        /\ Indexes' = Indexes
        /\ \A f, n : Filled(f, n)' = Filled(f, n)
    BY <1>1, SameNames
  <1>3. /\ DOMAIN weights' = DOMAIN weights \cup {SIDECAR}
        /\ \A z \in DOMAIN weights : z # SIDECAR => weights'[z] = weights[z]
        /\ weights'[SIDECAR] \in {NoTensors, ZeroKnorms}
        /\ doing' = "written" => weights'[SIDECAR] = ZeroKnorms
    <2>1. CASE doing' = "opened" /\ weights' = With(weights, SIDECAR, NoTensors)
      <3>1. /\ DOMAIN With(weights, SIDECAR, NoTensors) = DOMAIN weights \cup {SIDECAR}
            /\ With(weights, SIDECAR, NoTensors)[SIDECAR] = NoTensors
            /\ \A z \in DOMAIN weights : z # SIDECAR
                 => With(weights, SIDECAR, NoTensors)[z] = weights[z]
        BY DEF With
      <3> QED  BY <2>1, <3>1
    <2>2. CASE doing' = "written" /\ weights' = With(weights, SIDECAR, ZeroKnorms)
      <3>1. /\ DOMAIN With(weights, SIDECAR, ZeroKnorms) = DOMAIN weights \cup {SIDECAR}
            /\ With(weights, SIDECAR, ZeroKnorms)[SIDECAR] = ZeroKnorms
            /\ \A z \in DOMAIN weights : z # SIDECAR
                 => With(weights, SIDECAR, ZeroKnorms)[z] = weights[z]
        BY DEF With
      <3> QED  BY <2>2, <3>1
    <2> QED  BY <1>1, <2>1, <2>2
  <1>4. SIDECAR \notin Files
    BY <1>1, NameFacts
  <1>5. MergeType'
    BY <1>1, <1>2, <1>3 DEF MergeInv, MergeType
  <1>6. WeightsInv'
    <2>1. \A f \in Files : f \in DOMAIN weights => weights'[f] = weights[f]
      BY <1>3, <1>4
    <2>2. \A f \in Files : f \in DOMAIN weights /\ weights[f] = Filled(f, merges)
      BY <1>1 DEF MergeInv, WeightsInv
    <2>3. merges \in 0 .. merges
      BY DEF MergeInv, MergeType
    <2> QED  BY <1>1, <1>2, <1>3, <2>1, <2>2, <2>3 DEF WeightsInv
  <1>7. IndexInv'
    <2>1. index.state = "whole" => index.map # FullMap
      BY <1>1, MapsDiffer
    <2> QED  BY <1>1, <1>2, <1>3, <2>1 DEF MergeInv, IndexInv, NoTensors
  <1>8. CommandInv'
    BY <1>1, <1>2, <1>3 DEF CommandInv, SidecarWhole
  <1> QED  BY <1>5, <1>6, <1>7, <1>8 DEF MergeInv

(* The index is written, and names the sidecar.                            *)
LEMMA IndexStep ==
  ASSUME MergeInv, OpenIndex \/ SaveIndex
  PROVE  MergeInv'
  <1>1. /\ saved /\ weightMap = StoredMap /\ Missing # {} /\ ckpt \in Checkpoints
        /\ SidecarWhole
        /\ ckpt' = ckpt /\ merges' = merges /\ saved' = saved /\ weights' = weights
        /\ weightMap' = weightMap
    BY DEF OpenIndex, SaveIndex, MergeInv, MergeType, CommandInv
  <1>2. /\ Stored' = Stored /\ Asked' = Asked /\ Missing' = Missing /\ Files' = Files
        /\ StoredMap' = StoredMap /\ FullMap' = FullMap /\ ZeroKnorms' = ZeroKnorms
        /\ Indexes' = Indexes
        /\ \A f, n : Filled(f, n)' = Filled(f, n)
    BY <1>1, SameNames
  <1>3. \/ doing' = "indexing" /\ index' = Index("torn", NoTensors)
        \/ doing' = "ready" /\ index' = Index("whole", FullMap)
    <2>1. CASE OpenIndex
      BY <2>1 DEF OpenIndex
    <2>2. CASE SaveIndex
      <3>1. /\ PlanKnorm(weightMap) = Missing /\ DOMAIN weightMap = Stored
            /\ Stored \subseteq Asked
        BY <1>1, NameFacts
      <3> DEFINE m == [t \in DOMAIN weightMap \cup PlanKnorm(weightMap) |->
                          IF t \in PlanKnorm(weightMap) THEN SIDECAR ELSE weightMap[t]]
      <3>2. m = [t \in Asked |-> IF t \in Missing THEN SIDECAR ELSE weightMap[t]]
        BY <3>1 DEF Missing
      <3>3. \A t \in Asked : (IF t \in Missing THEN SIDECAR ELSE weightMap[t])
                                = IF t \in Stored THEN Home(t) ELSE SIDECAR
        BY <1>1, <3>1 DEF Missing, StoredMap
      <3>4. m = FullMap
        BY <3>2, <3>3 DEF FullMap
      <3> QED  BY <2>2, <3>4 DEF SaveIndex
    <2> QED  BY <2>1, <2>2
  <1>4. MergeType'
    <2>1. index' \in Indexes
      BY <1>3 DEF Indexes, Index
    <2> QED  BY <1>1, <1>2, <2>1 DEF MergeInv, MergeType
  <1>5. WeightsInv'
    BY <1>1, <1>2 DEF MergeInv, WeightsInv
  <1>6. IndexInv'
    BY <1>1, <1>2, <1>3 DEF MergeInv, IndexInv, SidecarWhole, NoTensors, Index
  <1>7. CommandInv'
    BY <1>1, <1>2, <1>3 DEF CommandInv, SidecarWhole, Index
  <1> QED  BY <1>4, <1>5, <1>6, <1>7 DEF MergeInv

(* The invariant of merging and of making ready is inductive.              *)
THEOREM MergeInductive == MergeSpec => []MergeInv
  <1>1. MergeInit => MergeInv
    <2> SUFFICES ASSUME MergeInit PROVE MergeInv
      OBVIOUS
    <2>1. MergeType
      BY DEF MergeInit, MergeType, Indexes, Index
    <2>2. WeightsInv /\ IndexInv /\ CommandInv
      BY DEF MergeInit, WeightsInv, IndexInv, CommandInv, Index
    <2> QED  BY <2>1, <2>2 DEF MergeInv
  <1>2. MergeInv /\ [MergeNext]_mergeVars => MergeInv'
    <2> SUFFICES ASSUME MergeInv, [MergeNext]_mergeVars PROVE MergeInv'
      OBVIOUS
    <2>1. CASE StartMerge \/ SaveWeights \/ EndMerge
      BY <2>1, MergeStep
    <2>2. ASSUME NEW dry \in BOOLEAN, Plan(dry) PROVE MergeInv'
      BY <2>2, PlanStep
    <2>3. CASE OpenSidecar \/ SaveSidecar
      BY <2>3, SidecarStep
    <2>4. CASE OpenIndex \/ SaveIndex
      BY <2>4, IndexStep
    <2>5. CASE KillMerge \/ UNCHANGED mergeVars
      <3>1. /\ ckpt' = ckpt /\ merges' = merges /\ saved' = saved /\ weights' = weights
            /\ index' = index /\ weightMap' = weightMap /\ doing' \in {"off", doing}
        BY <2>5 DEF KillMerge, mergeVars
      <3>2. /\ Stored' = Stored /\ Asked' = Asked /\ Missing' = Missing /\ Files' = Files
            /\ StoredMap' = StoredMap /\ FullMap' = FullMap /\ ZeroKnorms' = ZeroKnorms
            /\ Indexes' = Indexes
            /\ \A f, n : Filled(f, n)' = Filled(f, n)
        BY <3>1, SameNames
      <3>3. MergeType' /\ WeightsInv'
        BY <3>1, <3>2 DEF MergeInv, MergeType, WeightsInv
      <3>4. IndexInv'
        BY <3>1, <3>2 DEF MergeInv, IndexInv, SidecarWhole, NoTensors
      <3>5. CommandInv'
        BY <3>1, <3>2 DEF MergeInv, CommandInv, SidecarWhole
      <3> QED  BY <3>3, <3>4, <3>5 DEF MergeInv
    <2> QED  BY <2>1, <2>2, <2>3, <2>4, <2>5 DEF MergeNext
  <1> QED  BY <1>1, <1>2, PTL DEF MergeSpec

(* A command that returned leaves a checkpoint with every tensor that is    *)
(* asked for, the merged ones of the last merge.                           *)
THEOREM MergeReadyLoads == MergeSpec => []ReadyLoads
  <1>1. MergeInv => ReadyLoads
    <2> SUFFICES ASSUME MergeInv, doing = "ready"
                 PROVE  LET map == IF index.state = "whole" THEN index.map
                                   ELSE BuiltMap(DOMAIN weights)
                        IN  /\ Asked = DOMAIN map
                            /\ \A t \in Asked :
                                  /\ t \in DOMAIN weights[map[t]]
                                  /\ weights[map[t]][t].dim = DimOf(t[1])
                                  /\ t \in Stored => weights[map[t]][t].of = merges
      BY DEF ReadyLoads
    <2> DEFINE map == IF index.state = "whole" THEN index.map ELSE BuiltMap(DOMAIN weights)
    <2>1. /\ ckpt \in Checkpoints /\ saved /\ index.state \in {"none", "whole"}
          /\ index.state = "none" => Missing = {}
          /\ index.state = "whole" => index.map = FullMap
          /\ index.state = "whole" => Missing = {} \/ SidecarWhole
      BY DEF MergeInv, MergeType, Indexes, CommandInv, IndexInv
    <2>2. /\ Stored \subseteq Asked /\ \A t \in Stored : Home(t) \in Files
          /\ Missing = {} => FullMap = StoredMap
          /\ DOMAIN FullMap = Asked
      BY <2>1, NameFacts
    <2>3. map = FullMap /\ (Missing = {} \/ SidecarWhole)
      <3>1. CASE index.state = "whole"
        BY <2>1, <3>1
      <3>2. CASE index.state = "none"
        <4>1. Missing = {}
          BY <2>1, <3>2
        <4>2. SIDECAR \in DOMAIN weights => DOMAIN weights[SIDECAR] = {}
          BY <4>1 DEF MergeInv, IndexInv, NoTensors, ZeroKnorms
        <4>3. Files \subseteq DOMAIN weights /\ DOMAIN weights \subseteq Files \cup {SIDECAR}
          BY <2>1 DEF MergeInv, MergeType, WeightsInv
        <4>4. BuiltMap(DOMAIN weights) = StoredMap
          BY <2>1, <4>2, <4>3, BuiltFacts DEF MergeInv
        <4> QED  BY <2>2, <3>2, <4>1, <4>4
      <3> QED  BY <2>1, <3>1, <3>2
    <2> HIDE DEF map
    <2>4. ASSUME NEW t \in Asked
          PROVE  /\ t \in DOMAIN weights[map[t]]
                 /\ weights[map[t]][t].dim = DimOf(t[1])
                 /\ t \in Stored => weights[map[t]][t].of = merges
      <3>1. CASE t \in Stored
        <4>1. map[t] = Home(t) /\ Home(t) \in Files
          BY <2>2, <2>3, <3>1 DEF FullMap
        <4>2. weights[Home(t)] = Filled(Home(t), merges)
          BY <2>1, <4>1 DEF MergeInv, WeightsInv
        <4> QED  BY <3>1, <4>1, <4>2 DEF Filled
      <3>2. CASE t \notin Stored
        <4>1. t \in Missing /\ map[t] = SIDECAR
          BY <2>3, <3>2 DEF FullMap, Missing
        <4>2. weights[SIDECAR] = ZeroKnorms
          BY <2>3, <4>1 DEF SidecarWhole
        <4> QED  BY <3>2, <4>1, <4>2 DEF ZeroKnorms
      <3> QED  BY <3>1, <3>2
    <2>5. Asked = DOMAIN map
      BY <2>2, <2>3
    <2> QED  BY <2>4, <2>5 DEF map
  <1> QED  BY <1>1, MergeInductive, PTL
-----------------------------------------------------------------------------
(* What a run logs of itself.                                              *)

(* What the meter's clock measures is the time since the last pause, all   *)
(* that was trained unless the pause cut it; and every batch is in one log *)
(* or still in the sum.                                                    *)
MeterTypes ==
    /\ globalStep \in Nat /\ clock \in Nat /\ unpaused \in Nat /\ cutIn \in BOOLEAN
    /\ trained \in [steps : Nat, time : Nat]
    /\ lastLogTime \in Nat \cup {Never} /\ lastStep \in Nat
ClockInv ==
    lastLogTime # Never => lastLogTime <= clock /\ clock - lastLogTime = unpaused
TrainedInv ==
    /\ trained.steps = globalStep - lastStep
    /\ (trained.steps = 0) <=> (trained.time = 0)
    /\ IF cutIn THEN unpaused < trained.time ELSE unpaused = trained.time
LoggedInv ==
    /\ packed \cup UNION surfaced = 1 .. globalStep
    /\ \A a \in surfaced : a \cap packed = {}
    /\ \A a, b \in surfaced : a = b \/ a \cap b = {}
MeterInv == MeterTypes /\ ClockInv /\ TrainedInv /\ LoggedInv /\ RateOfTraining

(* A log of the packing takes every batch of the sum and leaves none.      *)
LEMMA DrainFacts ==
  ASSUME LoggedInv, DrainPacking, globalStep' = globalStep
  PROVE  LoggedInv'
  <1>1. packed' = {}
    BY DEF DrainPacking, AfterLog
  <1>2. CASE packed = {}
    BY <1>1, <1>2 DEF DrainPacking, LoggedInv
  <1>3. CASE packed # {}
    <2>1. surfaced' = surfaced \cup {packed}
      BY <1>3 DEF DrainPacking
    <2>2. packed' \cup UNION surfaced' = packed \cup UNION surfaced
      BY <1>1, <2>1
    <2>3. \A a, b \in surfaced' : a = b \/ a \cap b = {}
      BY <2>1 DEF LoggedInv
    <2> QED  BY <1>1, <2>2, <2>3 DEF LoggedInv
  <1> QED  BY <1>2, <1>3

(* A pause keeps its time out of what is measured, and with it the steps   *)
(* not logged yet.                                                         *)
LEMMA PauseFacts ==
  ASSUME MeterTypes, ClockInv, TrainedInv, RateOfTraining, NEW from, NEW every, NEW to,
         Pause(from, every, to)
  PROVE  MeterTypes' /\ ClockInv' /\ TrainedInv' /\ RateOfTraining'
  <1>1. /\ globalStep' = globalStep /\ mfu' = mfu /\ trained' = trained /\ lastStep' = lastStep
        /\ PauseTime \in Nat /\ Never \notin Nat
    BY ThroughputAssumption DEF Pause
  <1>2. RateOfTraining'
    BY <1>1 DEF RateOfTraining
  <1>3. CASE Due(every)
    <2>1. /\ clock' = clock + PauseTime /\ lastLogTime' = AfterPauseOf(clock')
          /\ unpaused' = 0 /\ cutIn' = (trained.steps > 0)
      BY <1>3 DEF Pause
    <2>2. clock' \in Nat /\ lastLogTime' \in {clock', Never}
      BY <1>1, <2>1 DEF MeterTypes, AfterPauseOf
    <2>3. MeterTypes'
      BY <1>1, <2>1, <2>2 DEF MeterTypes
    <2>4. ClockInv'
      <3>1. \A x \in Nat : x <= x /\ x - x = 0
        OBVIOUS
      <3>2. clock' <= clock' /\ clock' - clock' = unpaused'
        BY <2>1, <2>2, <3>1, Zenon
      <3> QED  BY <2>2, <3>2 DEF ClockInv
    <2>5. TrainedInv'
      <3>1. trained.steps \in Nat /\ trained.time \in Nat
        BY DEF MeterTypes
      <3>2. CASE trained.steps > 0
        <4>1. cutIn' = TRUE
          BY <2>1, <3>2, Zenon
        <4>2. trained.time > 0
          BY <3>1, <3>2 DEF TrainedInv
        <4> QED  BY <1>1, <2>1, <4>1, <4>2 DEF TrainedInv
      <3>3. CASE ~(trained.steps > 0)
        <4> DEFINE some == trained.steps > 0
        <4>3. ~some /\ some \in BOOLEAN /\ cutIn' = some
          BY <2>1, <3>3
        <4> HIDE DEF some
        <4>1. cutIn' = FALSE
          BY <4>3
        <4>2. trained.time = 0
          BY <3>1, <3>3 DEF TrainedInv
        <4> QED  BY <1>1, <2>1, <4>1, <4>2 DEF TrainedInv
      <3> QED  BY <3>2, <3>3
    <2> QED  BY <1>2, <2>3, <2>4, <2>5
  <1>4. CASE ~Due(every)
    <2>1. clock' = clock /\ lastLogTime' = lastLogTime /\ unpaused' = unpaused /\ cutIn' = cutIn
      BY <1>4 DEF Pause
    <2> QED  BY <1>1, <1>2, <2>1 DEF MeterTypes, ClockInv, TrainedInv
  <1> QED  BY <1>3, <1>4

(* The meters are true from the start and after every hook of the trainer. *)
THEOREM MeterInductive == MeterSpec => []MeterInv
  <1>1. MeterInit => MeterInv
    <2> SUFFICES ASSUME MeterInit PROVE MeterInv
      OBVIOUS
    <2>1. MeterTypes /\ ClockInv
      BY DEF MeterInit, MeterTypes, ClockInv, NoSteps
    <2>4. TrainedInv
      BY DEF MeterInit, TrainedInv, NoSteps
    <2>5. RateOfTraining
      BY DEF MeterInit, RateOfTraining, NoMfu, NoSteps
    <2>2. packed = {} /\ surfaced = {} /\ globalStep = 0
      BY DEF MeterInit
    <2>3. 1 .. globalStep = {}
      BY <2>2
    <2> QED  BY <2>1, <2>2, <2>3, <2>4, <2>5 DEF MeterInv, LoggedInv
  <1>2. MeterInv /\ [MeterNext]_meterVars => MeterInv'
    <2> SUFFICES ASSUME MeterInv, [MeterNext]_meterVars
                 PROVE  MeterInv'
      OBVIOUS
    <2>0. MeterTypes /\ ClockInv /\ TrainedInv /\ LoggedInv /\ RateOfTraining
      BY DEF MeterInv
    <2>1. CASE TrainOne
      <3>1. PICK t \in StepTimes :
              /\ clock' = clock + t /\ unpaused' = unpaused + t
              /\ trained' = [steps |-> trained.steps + 1, time |-> trained.time + t]
        BY <2>1 DEF TrainOne
      <3>2. /\ globalStep' = globalStep + 1 /\ packed' = packed \cup {globalStep + 1}
            /\ lastLogTime' = lastLogTime /\ mfu' = mfu /\ surfaced' = surfaced
            /\ lastStep' = lastStep /\ cutIn' = cutIn
            /\ t \in Nat \ {0} /\ Never \notin Nat
        BY <2>1, <3>1, ThroughputAssumption DEF TrainOne
      <3>3. MeterTypes' /\ ClockInv' /\ RateOfTraining'
        BY <2>0, <3>1, <3>2 DEF MeterTypes, ClockInv, RateOfTraining
      <3>6. TrainedInv'
        <4>1. /\ trained.steps \in Nat /\ trained.time \in Nat /\ unpaused \in Nat
              /\ globalStep \in Nat /\ lastStep \in Nat
              /\ trained'.steps = trained.steps + 1 /\ trained'.time = trained.time + t
          BY <2>0, <3>1 DEF MeterTypes
        <4> QED  BY <2>0, <3>1, <3>2, <4>1 DEF TrainedInv
      <3>4. packed' \cup UNION surfaced' = 1 .. globalStep'
        <4>1. 1 .. globalStep + 1 = 1 .. globalStep \cup {globalStep + 1}
          BY <2>0 DEF MeterTypes
        <4>2. packed \cup UNION surfaced = 1 .. globalStep
          BY <2>0 DEF LoggedInv
        <4> QED  BY <3>2, <4>1, <4>2
      <3>5. ASSUME NEW a \in surfaced PROVE a \cap packed' = {}
        <4>1. a \cap packed = {} /\ a \subseteq 1 .. globalStep
          BY <2>0, <3>5 DEF LoggedInv
        <4>2. globalStep + 1 \notin 1 .. globalStep
          BY <2>0 DEF MeterTypes
        <4> QED  BY <3>2, <4>1, <4>2
      <3> QED  BY <2>0, <3>2, <3>3, <3>4, <3>5, <3>6 DEF MeterInv, LoggedInv
    <2>2. CASE OnLog
      <3>1. globalStep' = globalStep /\ clock' = clock
        BY <2>2 DEF OnLog
      <3>2. CASE Due(LogEvery)
        <4>1. /\ DrainPacking /\ lastLogTime' = clock /\ lastStep' = globalStep
              /\ trained' = NoSteps /\ unpaused' = 0 /\ cutIn' = FALSE
          BY <2>2, <3>2 DEF OnLog
        <4>2. mfu' = IF Measured
                     THEN [steps |-> globalStep - lastStep, time |-> clock - lastLogTime,
                           of |-> trained, unpaused |-> unpaused, cutIn |-> cutIn]
                     ELSE mfu
          BY <2>2, <3>2 DEF OnLog
        <4>3. LoggedInv'
          BY <2>0, <3>1, <4>1, DrainFacts
        <4>4. RateOfTraining'
          <5>1. CASE Measured
            <6>1. /\ mfu'.steps = trained.steps /\ mfu'.time = unpaused
                  /\ mfu'.of = trained /\ mfu'.unpaused = unpaused /\ mfu'.cutIn = cutIn
              BY <2>0, <4>2, <5>1 DEF ClockInv, TrainedInv, Measured
            <6>2. CASE cutIn = TRUE
              BY <2>0, <6>1, <6>2 DEF TrainedInv, RateOfTraining
            <6>3. CASE cutIn = FALSE
              BY <2>0, <6>1, <6>3 DEF TrainedInv, RateOfTraining
            <6> QED  BY <2>0, <6>2, <6>3 DEF MeterTypes
          <5>2. CASE ~Measured
            BY <2>0, <4>2, <5>2 DEF RateOfTraining
          <5> QED  BY <5>1, <5>2
        <4>5. MeterTypes' /\ ClockInv'
          <5>1. cutIn' \in BOOLEAN
            BY <4>1, Zenon
          <5>2. clock' - lastLogTime' = 0 /\ lastLogTime' <= clock'
            BY <2>0, <3>1, <4>1 DEF MeterTypes
          <5>3. MeterTypes'
            BY <2>0, <3>1, <4>1, <5>1 DEF MeterTypes, NoSteps
          <5> QED  BY <4>1, <5>2, <5>3 DEF ClockInv
        <4>6. TrainedInv'
          <5>1. globalStep' - lastStep' = 0
            BY <2>0, <3>1, <4>1 DEF MeterTypes
          <5> QED  BY <4>1, <5>1 DEF TrainedInv, NoSteps
        <4> QED  BY <4>3, <4>4, <4>5, <4>6 DEF MeterInv
      <3>3. CASE ~Due(LogEvery)
        <4>1. /\ mfu' = mfu /\ lastLogTime' = lastLogTime /\ trained' = trained
              /\ lastStep' = lastStep /\ unpaused' = unpaused /\ cutIn' = cutIn
              /\ packed' = packed /\ surfaced' = surfaced
          BY <2>2, <3>3 DEF OnLog
        <4> QED
          BY <2>0, <3>1, <4>1
          DEF MeterInv, MeterTypes, ClockInv, TrainedInv, LoggedInv, RateOfTraining
      <3> QED  BY <3>2, <3>3
    <2>3. CASE Evaluate
      <3>1. Pause("evaluate", EvalEvery, "save")
        BY <2>3 DEF Evaluate
      <3>2. globalStep' = globalStep
        BY <3>1 DEF Pause
      <3>3. LoggedInv'
        <4>1. CASE Due(EvalEvery)
          BY <2>0, <2>3, <3>2, <4>1, DrainFacts DEF Evaluate
        <4>2. CASE ~Due(EvalEvery)
          BY <2>0, <2>3, <3>2, <4>2 DEF Evaluate, LoggedInv
        <4> QED  BY <4>1, <4>2
      <3> QED  BY <2>0, <3>1, <3>3, PauseFacts DEF MeterInv
    <2>4. CASE SaveCheckpoint
      <3>1. Pause("save", CkptEvery, "step") /\ packed' = packed /\ surfaced' = surfaced
        BY <2>4 DEF SaveCheckpoint
      <3>2. globalStep' = globalStep
        BY <3>1 DEF Pause
      <3>3. LoggedInv'
        BY <2>0, <3>1, <3>2 DEF LoggedInv
      <3> QED  BY <2>0, <3>1, <3>3, PauseFacts DEF MeterInv
    <2>5. CASE UNCHANGED meterVars
      BY <2>0, <2>5
      DEF meterVars, MeterInv, MeterTypes, ClockInv, TrainedInv, LoggedInv, RateOfTraining
    <2> QED  BY <2>1, <2>2, <2>3, <2>4, <2>5 DEF MeterNext
  <1> QED  BY <1>1, <1>2, PTL DEF MeterSpec

(* A utilization counts the steps since the last log and is timed by those *)
(* since the last pause, all of them unless a pause cut in; and a batch's  *)
(* packing is in one log: for every cadence of logs, evaluations and       *)
(* saves.                                                                  *)
THEOREM MeterTrue == MeterSpec => []LogsTrue
  <1>1. MeterInv => LogsTrue
    BY DEF MeterInv, LoggedInv, LogsTrue, BatchesLoggedOnce
  <1> QED  BY <1>1, MeterInductive, PTL

-----------------------------------------------------------------------------
(* The ranks of a translation finetune.                                    *)

(* The run `training` does this in its part "corpus".                      *)
CorpusSpec == CorpusInit /\ [][CorpusNext]_corpusVars

(* What has a shape: where ranks are, who holds a lock, the data of each.  *)
CorpusType ==
    /\ rank \in [GpuRanks -> {"off", "train", "dev", "loaded", "tuning"}]
    /\ lock \in [DataSplits -> GpuRanks \cup {0}]
    /\ saving \subseteq GpuRanks
    /\ DOMAIN cache = DataSplits /\ cache = [s \in DataSplits |-> cache[s]]
    /\ \A s \in DataSplits : cache[s].state \in {"none", "begun", "saved"}
    /\ DOMAIN data = GpuRanks /\ data = [r \in GpuRanks |-> data[r]]
    /\ \A r \in GpuRanks : DOMAIN data[r] = DataSplits /\ data[r] = [s \in DataSplits |-> data[r][s]]
    /\ resumed = [r \in GpuRanks |-> resumed[r]] /\ DOMAIN resumed = GpuRanks

(* A rank has got the data set of a split.                                 *)
Past(r, s) == rank[r] \in (IF s = "train" THEN {"dev"} ELSE {}) \cup {"loaded", "tuning"}

(* What a rank has got is what is in the cache, whole.                     *)
GotInv == \A r \in GpuRanks, s \in DataSplits :
    Past(r, s) => cache[s].state = "saved" /\ data[r][s] = cache[s].rows

(* Who saves a cache has its lock, and the cache is begun.                 *)
SavingInv == \A r \in saving :
    rank[r] \in DataSplits /\ lock[rank[r]] = r /\ cache[rank[r]].state = "begun"

(* Where a rank that begins now would resume.                              *)
ResumePoint == IF render.resume THEN LastAdapter ELSE 0

(* The ranks that began resumed there, as long as not all of them have.    *)
ResumedInv ==
    \/ /\ \A r \in GpuRanks : rank[r] = "tuning"
       /\ \A r, s \in GpuRanks : resumed[r] = resumed[s]
    \/ \A r \in GpuRanks : rank[r] = "tuning" => resumed[r] = ResumePoint

CorpusInv == CorpusType /\ GotInv /\ SavingInv /\ ResumedInv

(* A step of the render, or none, leaves the ranks as they are.             *)
LEMMA RestStays ==
  ASSUME CorpusInv, rank' = rank, lock' = lock, saving' = saving, cache' = cache, data' = data,
         resumed' = resumed, adapters' = adapters, render' = render
  PROVE  CorpusInv'
  <1>1. CorpusType' /\ GotInv' /\ SavingInv'
    BY DEF CorpusInv, CorpusType, GotInv, SavingInv, Past
  <1>2. ResumedInv'
    BY DEF CorpusInv, ResumedInv, ResumePoint, LastAdapter
  <1> QED  BY <1>1, <1>2 DEF CorpusInv

(* All ranks stop, or start anew, and what is cached stays.                *)
LEMMA RanksFresh ==
  ASSUME CorpusInv, NEW place \in {"off", "train"}, rank' = [r \in GpuRanks |-> place],
         lock' \in [DataSplits -> GpuRanks \cup {0}], saving' = {}, cache' = cache,
         data' = data \/ data' = [r \in GpuRanks |-> NoRows],
         resumed' = resumed
  PROVE  CorpusInv'
  <1>1. CorpusType
    BY DEF CorpusInv
  <1>2. \A r \in GpuRanks : rank'[r] = place
    OBVIOUS
  <1>3. rank' \in [GpuRanks -> {"off", "train", "dev", "loaded", "tuning"}]
    OBVIOUS
  <1>4. /\ DOMAIN data' = GpuRanks /\ data' = [r \in GpuRanks |-> data'[r]]
        /\ \A r \in GpuRanks :
              DOMAIN data'[r] = DataSplits /\ data'[r] = [s \in DataSplits |-> data'[r][s]]
    <2>1. CASE data' = data
      BY <1>1, <2>1 DEF CorpusType
    <2>2. CASE data' = [r \in GpuRanks |-> NoRows]
      BY <2>2 DEF NoRows
    <2> QED  BY <2>1, <2>2
  <1>5. CorpusType'
    BY <1>1, <1>3, <1>4 DEF CorpusType
  <1>6. GotInv'
    BY <1>2 DEF GotInv, Past
  <1>7. SavingInv'
    BY DEF SavingInv
  <1>8. ResumedInv'
    BY <1>2 DEF ResumedInv
  <1> QED  BY <1>5, <1>6, <1>7, <1>8 DEF CorpusInv

(* A rank gets the data set of the split whose lock it holds: one that was *)
(* saved before, or that it saves now.                                     *)
LEMMA RankGets ==
  ASSUME CorpusInv, NEW r \in GpuRanks, rank[r] \in DataSplits, lock[rank[r]] = r,
         NEW rows, Got(r, rows), saving' = saving \ {r},
         \/ cache' = cache /\ cache[rank[r]].state = "saved" /\ rows = cache[rank[r]].rows
         \/ /\ cache[rank[r]].state = "begun"
            /\ cache' = [cache EXCEPT ![rank[r]] = Cached("saved", rows)],
         resumed' = resumed, adapters' = adapters, render' = render
  PROVE  CorpusInv'
  <1> DEFINE here == rank[r]
             next == IF here = "train" THEN "dev" ELSE "loaded"
  <1>1. /\ CorpusType /\ GotInv /\ SavingInv /\ ResumedInv
        /\ rank \in [GpuRanks -> {"off", "train", "dev", "loaded", "tuning"}]
        /\ here \in DataSplits /\ here \in {"train", "dev"} /\ rank[r] = here
    BY DEF CorpusInv, CorpusType, DataSplits
  <1>2. /\ data' = [data EXCEPT ![r][here] = rows]
        /\ lock' = [lock EXCEPT ![here] = 0]
        /\ rank' = [rank EXCEPT ![r] = next]
    BY DEF Got
  <1>3. /\ cache'[here].state = "saved" /\ cache'[here].rows = rows
        /\ \A s \in DataSplits : s # here => cache'[s] = cache[s]
        /\ DOMAIN cache' = DataSplits /\ cache' = [s \in DataSplits |-> cache'[s]]
        /\ \A s \in DataSplits : cache[s].state = "saved" => cache'[s] = cache[s]
        /\ \A s \in DataSplits : cache'[s].state \in {"none", "begun", "saved"}
    <2>1. DOMAIN cache = DataSplits /\ cache = [s \in DataSplits |-> cache[s]]
          /\ \A s \in DataSplits : cache[s].state \in {"none", "begun", "saved"}
      BY <1>1 DEF CorpusType
    <2>2. CASE cache' = cache /\ cache[here].state = "saved" /\ rows = cache[here].rows
      BY <2>1, <2>2
    <2>3. CASE /\ cache[here].state = "begun"
               /\ cache' = [cache EXCEPT ![here] = Cached("saved", rows)]
      <3> HIDE DEF here
      <3> QED  BY <1>1, <2>1, <2>3 DEF Cached
    <2> QED  BY <2>2, <2>3
  <1>4. /\ data'[r][here] = rows
        /\ \A s \in DataSplits : s # here => data'[r][s] = data[r][s]
        /\ \A q \in GpuRanks : q # r => data'[q] = data[q]
        /\ DOMAIN data' = GpuRanks /\ data' = [q \in GpuRanks |-> data'[q]]
        /\ \A q \in GpuRanks :
              DOMAIN data'[q] = DataSplits /\ data'[q] = [s \in DataSplits |-> data'[q][s]]
    <2>1. /\ DOMAIN data = GpuRanks /\ data = [q \in GpuRanks |-> data[q]]
          /\ \A q \in GpuRanks :
                DOMAIN data[q] = DataSplits /\ data[q] = [s \in DataSplits |-> data[q][s]]
      BY <1>1 DEF CorpusType
    <2>2. data' = [data EXCEPT ![r] = [data[r] EXCEPT ![here] = rows]]
      BY <1>2
    <2> HIDE DEF here
    <2>3. /\ data'[r] = [data[r] EXCEPT ![here] = rows]
          /\ \A q \in GpuRanks : q # r => data'[q] = data[q]
          /\ DOMAIN data' = GpuRanks /\ data' = [q \in GpuRanks |-> data'[q]]
      BY <2>1, <2>2
    <2>4. /\ data'[r][here] = rows
          /\ \A s \in DataSplits : s # here => data'[r][s] = data[r][s]
          /\ DOMAIN data'[r] = DataSplits /\ data'[r] = [s \in DataSplits |-> data'[r][s]]
      BY <1>1, <2>1, <2>3
    <2> QED  BY <2>1, <2>3, <2>4
  <1>5. /\ rank'[r] = next /\ \A q \in GpuRanks : q # r => rank'[q] = rank[q]
        /\ rank' \in [GpuRanks -> {"off", "train", "dev", "loaded", "tuning"}]
    BY <1>1, <1>2
  <1>6. CorpusType'
    <2>1. lock' \in [DataSplits -> GpuRanks \cup {0}] /\ saving' \subseteq GpuRanks
      BY <1>1, <1>2 DEF CorpusType
    <2>2. resumed' = [q \in GpuRanks |-> resumed'[q]] /\ DOMAIN resumed' = GpuRanks
      BY <1>1 DEF CorpusType
    <2> HIDE DEF here, next
    <2> QED  BY <1>3, <1>4, <1>5, <2>1, <2>2 DEF CorpusType
  <1>7. GotInv'
    <2> SUFFICES ASSUME NEW q \in GpuRanks, NEW s \in DataSplits, Past(q, s)'
                 PROVE  cache'[s].state = "saved" /\ data'[q][s] = cache'[s].rows
      BY DEF GotInv
    <2>1. CASE q # r
      <3>1. Past(q, s)
        BY <1>5, <2>1 DEF Past
      <3>2. cache[s].state = "saved" /\ data[q][s] = cache[s].rows
        BY <1>1, <3>1 DEF GotInv
      <3> QED  BY <1>3, <1>4, <2>1, <3>2
    <2>2. CASE q = r /\ s = here
      BY <1>3, <1>4, <2>2
    <2>3. CASE q = r /\ s # here
      <3>1. s = "train" /\ here = "dev"
        BY <1>1, <1>5, <2>3 DEF Past, DataSplits
      <3>2. Past(r, s)
        BY <3>1 DEF Past
      <3>3. cache[s].state = "saved" /\ data[r][s] = cache[s].rows
        BY <1>1, <3>2 DEF GotInv
      <3> QED  BY <1>3, <1>4, <2>3, <3>3
    <2> QED  BY <2>1, <2>2, <2>3
  <1>8. SavingInv'
    <2> SUFFICES ASSUME NEW q \in saving'
                 PROVE  /\ rank'[q] \in DataSplits /\ lock'[rank'[q]] = q
                        /\ cache'[rank'[q]].state = "begun"
      BY DEF SavingInv
    <2>1. q \in saving /\ q # r /\ q \in GpuRanks
      BY <1>1 DEF CorpusType
    <2>2. rank[q] \in DataSplits /\ lock[rank[q]] = q /\ cache[rank[q]].state = "begun"
      BY <1>1, <2>1 DEF SavingInv
    <2>3. rank'[q] = rank[q] /\ rank[q] # here
      BY <1>5, <2>1, <2>2
    <2>4. lock'[rank[q]] = lock[rank[q]]
      BY <1>1, <1>2, <2>2, <2>3 DEF CorpusType
    <2> HIDE DEF here
    <2> QED  BY <1>3, <2>2, <2>3, <2>4
  <1>9. ResumedInv'
    <2>1. \A q \in GpuRanks : rank[q] = "tuning" => resumed[q] = ResumePoint
      BY <1>1 DEF ResumedInv, DataSplits
    <2>2. ResumePoint' = ResumePoint
      BY DEF ResumePoint, LastAdapter
    <2>3. \A q \in GpuRanks : rank'[q] = "tuning" => rank[q] = "tuning"
      BY <1>5
    <2>4. \A q \in GpuRanks : rank'[q] = "tuning" => resumed'[q] = ResumePoint'
      BY <2>1, <2>2, <2>3
    <2> QED  BY <2>4 DEF ResumedInv
  <1> QED  BY <1>6, <1>7, <1>8, <1>9 DEF CorpusInv

(* A rank that begins to train resumes where the others did.               *)
LEMMA ResumeKeeps ==
  ASSUME CorpusInv, NEW r \in GpuRanks, ResumeFrom(r)
  PROVE  CorpusInv'
  <1>1. /\ CorpusType /\ GotInv /\ SavingInv /\ ResumedInv /\ rank[r] = "loaded"
        /\ rank' = [rank EXCEPT ![r] = "tuning"]
        /\ resumed' = [resumed EXCEPT ![r] = ResumePoint]
        /\ cache' = cache /\ lock' = lock /\ saving' = saving /\ data' = data
        /\ adapters' = adapters /\ render' = render
    BY DEF CorpusInv, ResumeFrom, ResumePoint, cacheVars, renderVars
  <1>2. /\ rank'[r] = "tuning" /\ \A q \in GpuRanks : q # r => rank'[q] = rank[q]
        /\ rank' \in [GpuRanks -> {"off", "train", "dev", "loaded", "tuning"}]
        /\ resumed'[r] = ResumePoint /\ \A q \in GpuRanks : q # r => resumed'[q] = resumed[q]
        /\ resumed' = [q \in GpuRanks |-> resumed'[q]] /\ DOMAIN resumed' = GpuRanks
    BY <1>1 DEF CorpusType
  <1>3. CorpusType'
    BY <1>1, <1>2 DEF CorpusType
  <1>4. GotInv'
    <2>1. \A q \in GpuRanks, s \in DataSplits : Past(q, s)' => Past(q, s)
      BY <1>1, <1>2 DEF Past
    <2> QED  BY <1>1, <2>1 DEF GotInv
  <1>5. SavingInv'
    <2> SUFFICES ASSUME NEW q \in saving
                 PROVE  /\ rank'[q] \in DataSplits /\ lock[rank'[q]] = q
                        /\ cache[rank'[q]].state = "begun"
      BY <1>1 DEF SavingInv
    <2>1. q \in GpuRanks /\ rank[q] \in DataSplits
      BY <1>1 DEF CorpusType, SavingInv
    <2>2. q # r
      BY <1>1, <2>1 DEF DataSplits
    <2> QED  BY <1>1, <1>2, <2>1, <2>2 DEF SavingInv
  <1>6. ResumedInv'
    <2>1. \A q \in GpuRanks : rank[q] = "tuning" => resumed[q] = ResumePoint
      BY <1>1 DEF ResumedInv
    <2>2. ResumePoint' = ResumePoint
      BY <1>1 DEF ResumePoint, LastAdapter
    <2>3. \A q \in GpuRanks : rank'[q] = "tuning" => resumed'[q] = ResumePoint'
      BY <1>2, <2>1, <2>2
    <2> QED  BY <2>3 DEF ResumedInv
  <1> QED  BY <1>3, <1>4, <1>5, <1>6 DEF CorpusInv

(* A step of the training is one of all ranks: they have all resumed.      *)
LEMMA TuneKeeps ==
  ASSUME CorpusInv, TuneStep
  PROVE  CorpusInv'
  <1>1. /\ CorpusType /\ GotInv /\ SavingInv /\ ResumedInv
        /\ \A r \in GpuRanks : rank[r] = "tuning"
        /\ rank' = rank /\ resumed' = resumed /\ cache' = cache /\ lock' = lock
        /\ saving' = saving /\ data' = data
    BY DEF CorpusInv, TuneStep, cacheVars, renderVars
  <1>2. CorpusType' /\ GotInv' /\ SavingInv'
    BY <1>1 DEF CorpusType, GotInv, SavingInv, Past
  <1>3. \A r, s \in GpuRanks : resumed[r] = resumed[s]
    BY <1>1 DEF ResumedInv
  <1>4. ResumedInv'
    BY <1>1, <1>3 DEF ResumedInv
  <1> QED  BY <1>2, <1>4 DEF CorpusInv

(* Taking a lock that is free, and beginning a cache under it.             *)
LEMMA LockKeeps ==
  ASSUME CorpusInv, NEW r \in GpuRanks, Acquire(r)
  PROVE  CorpusInv'
  <1>1. /\ CorpusType /\ GotInv /\ SavingInv /\ ResumedInv
        /\ rank[r] \in DataSplits /\ lock[rank[r]] = 0 /\ lock' = [lock EXCEPT ![rank[r]] = r]
        /\ rank' = rank /\ resumed' = resumed /\ cache' = cache /\ saving' = saving
        /\ data' = data /\ adapters' = adapters /\ render' = render
    BY DEF CorpusInv, Acquire, LockFree, tuneVars, renderVars
  <1>2. CorpusType'
    BY <1>1 DEF CorpusType
  <1>3. GotInv'
    BY <1>1 DEF GotInv, Past
  <1>4. SavingInv'
    <2> SUFFICES ASSUME NEW q \in saving PROVE lock'[rank[q]] = q
      BY <1>1 DEF SavingInv
    <2>1. q \in GpuRanks /\ rank[q] \in DataSplits /\ lock[rank[q]] = q
      BY <1>1 DEF CorpusType, SavingInv
    <2>2. rank[q] # rank[r]
      BY <1>1, <2>1, CorpusAssumption
    <2> QED  BY <1>1, <2>1, <2>2 DEF CorpusType
  <1>5. ResumedInv'
    BY <1>1 DEF ResumedInv, ResumePoint, LastAdapter
  <1> QED  BY <1>2, <1>3, <1>4, <1>5 DEF CorpusInv

(* A rank that holds the lock finds no cache and begins one.               *)
LEMMA BeginKeeps ==
  ASSUME CorpusInv, NEW r \in GpuRanks, rank[r] \in DataSplits, lock[rank[r]] = r,
         cache[rank[r]].state = "none",
         cache' = [cache EXCEPT ![rank[r]] = Cached("begun", <<>>)],
         saving' = saving \cup {r}, rank' = rank, lock' = lock, data' = data,
         resumed' = resumed, adapters' = adapters, render' = render
  PROVE  CorpusInv'
  <1>1. CorpusType /\ GotInv /\ SavingInv /\ ResumedInv
    BY DEF CorpusInv
  <1>2. /\ cache'[rank[r]].state = "begun"
        /\ \A s \in DataSplits : s # rank[r] => cache'[s] = cache[s]
        /\ DOMAIN cache' = DataSplits /\ cache' = [s \in DataSplits |-> cache'[s]]
        /\ \A s \in DataSplits : cache'[s].state \in {"none", "begun", "saved"}
    BY <1>1 DEF CorpusType, Cached
  <1>3. CorpusType'
    BY <1>1, <1>2 DEF CorpusType
  <1>4. GotInv'
    <2> SUFFICES ASSUME NEW q \in GpuRanks, NEW s \in DataSplits, Past(q, s)
                 PROVE  cache'[s].state = "saved" /\ data[q][s] = cache'[s].rows
      BY DEF GotInv, Past
    <2>1. cache[s].state = "saved" /\ data[q][s] = cache[s].rows
      BY <1>1 DEF GotInv
    <2> QED  BY <1>2, <2>1
  <1>5. SavingInv'
    <2> SUFFICES ASSUME NEW q \in saving \cup {r}
                 PROVE  /\ rank[q] \in DataSplits /\ lock[rank[q]] = q
                        /\ cache'[rank[q]].state = "begun"
      BY DEF SavingInv
    <2>1. CASE q = r
      BY <1>2, <2>1
    <2>2. CASE q \in saving
      <3>1. rank[q] \in DataSplits /\ lock[rank[q]] = q /\ cache[rank[q]].state = "begun"
        BY <1>1, <2>2 DEF SavingInv
      <3> QED  BY <1>2, <3>1
    <2> QED  BY <2>1, <2>2
  <1>6. ResumedInv'
    BY <1>1 DEF ResumedInv, ResumePoint, LastAdapter
  <1> QED  BY <1>3, <1>4, <1>5, <1>6 DEF CorpusInv

(* What the ranks do with the caches.                                      *)
LEMMA CacheKeeps ==
  ASSUME CorpusInv, NEW r \in GpuRanks, LoadCached(r) \/ BuildCache(r) \/ SaveCache(r)
  PROVE  CorpusInv'
  <1>0. CorpusType /\ SavingInv /\ lock \in [DataSplits -> GpuRanks \cup {0}]
    BY DEF CorpusInv, CorpusType
  <1>1. ASSUME AllOff, cache' = cache, data' = data, resumed' = resumed PROVE CorpusInv'
    <2>1. /\ rank' = [q \in GpuRanks |-> "off"] /\ saving' = {}
          /\ lock' = [s \in DataSplits |-> 0]
      BY <1>1 DEF AllOff
    <2>2. lock' \in [DataSplits -> GpuRanks \cup {0}]
      BY <2>1
    <2> QED  BY <1>1, <2>1, <2>2, RanksFresh
  <1>2. CASE LoadCached(r)
    <2>1. /\ rank[r] \in DataSplits /\ lock[rank[r]] = r /\ r \notin saving
          /\ cache[rank[r]].state # "none" /\ cache' = cache
          /\ resumed' = resumed /\ adapters' = adapters /\ render' = render
      BY <1>2 DEF LoadCached, tuneVars, renderVars
    <2>2. CASE cache[rank[r]].state = "begun"
      <3>1. AllOff /\ data' = data
        BY <1>2, <2>2 DEF LoadCached
      <3> QED  BY <1>1, <2>1, <3>1
    <2>3. CASE cache[rank[r]].state # "begun"
      <3>1. Got(r, cache[rank[r]].rows) /\ saving' = saving \ {r}
        BY <1>2, <2>1, <2>3 DEF LoadCached
      <3>2. cache[rank[r]].state = "saved"
        BY <1>0, <2>1, <2>3 DEF CorpusType
      <3> QED  BY <2>1, <3>1, <3>2, RankGets
    <2> QED  BY <2>2, <2>3
  <1>3. CASE BuildCache(r)
    <2>1. /\ rank[r] \in DataSplits /\ lock[rank[r]] = r /\ cache[rank[r]].state = "none"
          /\ data' = data /\ resumed' = resumed /\ adapters' = adapters /\ render' = render
      BY <1>3 DEF BuildCache, tuneVars, renderVars
    <2>2. CASE Filtered(rank[r]) = <<>>
      <3>1. AllOff /\ cache' = cache
        BY <1>3, <2>2 DEF BuildCache
      <3> QED  BY <1>1, <2>1, <3>1
    <2>3. CASE Filtered(rank[r]) # <<>>
      <3>1. /\ cache' = [cache EXCEPT ![rank[r]] = Cached("begun", <<>>)]
            /\ saving' = saving \cup {r} /\ rank' = rank /\ lock' = lock
        BY <1>3, <2>3 DEF BuildCache
      <3> QED  BY <2>1, <3>1, BeginKeeps
    <2> QED  BY <2>2, <2>3
  <1>4. CASE SaveCache(r)
    <2> DEFINE rows == Filtered(rank[r])
    <2>1. /\ r \in saving /\ Got(r, rows) /\ saving' = saving \ {r}
          /\ cache' = [cache EXCEPT ![rank[r]] = Cached("saved", rows)]
          /\ resumed' = resumed /\ adapters' = adapters /\ render' = render
      BY <1>4 DEF SaveCache, tuneVars, renderVars
    <2> HIDE DEF rows
    <2>2. rank[r] \in DataSplits /\ lock[rank[r]] = r /\ cache[rank[r]].state = "begun"
      BY <1>0, <2>1 DEF SavingInv
    <2> QED  BY <2>1, <2>2, RankGets
  <1> QED  BY <1>2, <1>3, <1>4

(* Every step of a render, a launch, a rank or a kill keeps the ranks      *)
(* alike.                                                                  *)
THEOREM CorpusInductive == CorpusSpec => []CorpusInv
  <1>1. CorpusInit => CorpusInv
    <2> SUFFICES ASSUME CorpusInit PROVE CorpusInv
      OBVIOUS
    <2>1. /\ rank = [r \in GpuRanks |-> "off"] /\ saving = {} /\ lock = [s \in DataSplits |-> 0]
          /\ cache = [s \in DataSplits |-> Cached("none", <<>>)]
          /\ data = [r \in GpuRanks |-> NoRows] /\ resumed = [r \in GpuRanks |-> 0]
      BY DEF CorpusInit
    <2>2. CorpusType
      BY <2>1 DEF CorpusType, Cached, NoRows
    <2>3. GotInv /\ SavingInv /\ ResumedInv
      BY <2>1 DEF GotInv, SavingInv, ResumedInv, Past
    <2> QED  BY <2>2, <2>3 DEF CorpusInv
  <1>2. CorpusInv /\ [CorpusNext]_corpusVars => CorpusInv'
    <2> SUFFICES ASSUME CorpusInv, [CorpusNext]_corpusVars PROVE CorpusInv'
      OBVIOUS
    <2>1. CASE StartRender \/ RenderLine \/ EndRender
      <3>1. /\ rank' = rank /\ lock' = lock /\ saving' = saving /\ cache' = cache
            /\ data' = data /\ resumed' = resumed /\ adapters' = adapters /\ render' = render
        BY <2>1 DEF StartRender, RenderLine, EndRender, cacheVars, tuneVars
      <3> QED  BY <3>1, RestStays
    <2>2. CASE Launch
      <3>1. /\ Idle /\ rank' = [r \in GpuRanks |-> "train"]
            /\ data' = [r \in GpuRanks |-> NoRows]
            /\ cache' = cache /\ lock' = lock /\ saving' = saving /\ resumed' = resumed
        BY <2>2 DEF Launch, tuneVars
      <3>2. saving = {}
        BY <3>1 DEF CorpusInv, CorpusType, SavingInv, Idle, DataSplits
      <3>3. lock' \in [DataSplits -> GpuRanks \cup {0}] /\ saving' = {}
        BY <3>1, <3>2 DEF CorpusInv, CorpusType
      <3> QED  BY <3>1, <3>3, RanksFresh
    <2>3. CASE TuneStep
      BY <2>3, TuneKeeps
    <2>4. CASE EndTune
      <3>1. /\ \A r \in GpuRanks : rank[r] = "tuning"
            /\ rank' = [r \in GpuRanks |-> "off"]
            /\ cache' = cache /\ lock' = lock /\ saving' = saving /\ data' = data
            /\ resumed' = resumed
        BY <2>4 DEF EndTune, cacheVars, tuneVars
      <3>2. saving = {}
        BY <3>1 DEF CorpusInv, CorpusType, SavingInv, DataSplits
      <3>3. lock' \in [DataSplits -> GpuRanks \cup {0}] /\ saving' = {}
        BY <3>1, <3>2 DEF CorpusInv, CorpusType
      <3> QED  BY <3>1, <3>3, RanksFresh
    <2>5. CASE KillCorpusJob
      <3>1. /\ rank' = [r \in GpuRanks |-> "off"] /\ saving' = {}
            /\ lock' = [s \in DataSplits |-> 0]
            /\ cache' = cache /\ data' = data /\ resumed' = resumed
        BY <2>5 DEF KillCorpusJob, AllOff, tuneVars
      <3>2. lock' \in [DataSplits -> GpuRanks \cup {0}]
        BY <3>1
      <3> QED  BY <3>1, <3>2, RanksFresh
    <2>6. ASSUME NEW r \in GpuRanks,
                 Acquire(r) \/ LoadCached(r) \/ BuildCache(r) \/ SaveCache(r) \/ ResumeFrom(r)
          PROVE  CorpusInv'
      BY <2>6, LockKeeps, CacheKeeps, ResumeKeeps
    <2>7. CASE UNCHANGED corpusVars
      BY <2>7, RestStays DEF corpusVars
    <2> QED  BY <2>1, <2>2, <2>3, <2>4, <2>5, <2>6, <2>7 DEF CorpusNext
  <1> QED  BY <1>1, <1>2, PTL DEF CorpusSpec

-----------------------------------------------------------------------------
(* What the ranks train on.                                                *)

(* The rows of a corpus are a list of its pairs of texts.                  *)
LEMMA UsableFacts ==
  ASSUME NEW c \in DOMAIN Corpora
  PROVE  UsableRows(c) \in Seq(ToSet(Corpora[c].rows))
  <1> DEFINE all == Corpora[c].rows
             R == ToSet(all)
             T == {Corpora[c].limit, Len(all)}
             k == Min(T)
             read == SubSeq(all, 1, k)
  <1>1. all \in Seq(R) /\ Corpora[c].limit \in Nat
    <2>1. Corpora[c] \in ToSet(Corpora)
      BY DEF ToSet
    <2> QED  BY <2>1, CorpusAssumption
  <1>2. Len(all) \in Nat
    BY <1>1
  <1>3. k \in 0 .. Len(all)
    <2>1. Corpora[c].limit + Len(all) \in Nat /\ T \subseteq 0 .. (Corpora[c].limit + Len(all)) /\ T # {}
      BY <1>1, <1>2
    <2> HIDE DEF T
    <2>2. Min(T) \in T /\ \A n \in T : Min(T) <= n
      BY <2>1, ExtremeFacts
    <2> QED  BY <1>1, <1>2, <2>2 DEF T
  <1> HIDE DEF all, R, k
  <1>4. read \in Seq(R)
    BY <1>1, <1>3, SplitAt
  <1>5. DOMAIN read = 1 .. Len(read)
    BY <1>4
  <1> DEFINE K == {i \in DOMAIN read : read[i][1] # Empty /\ read[i][2] # Empty}
  <1>6. K \in SUBSET (1 .. Len(read))
    BY <1>5
  <1>7. UsableRows(c) = PickAt(read, K)
    BY DEF UsableRows, all, k
  <1> HIDE DEF K, read
  <1>8. PickAt(read, K) \in Seq(R)
    BY <1>4, <1>6, PickAtFacts
  <1> QED  BY <1>7, <1>8 DEF R, all

(* What is rendered of a corpus are its wanted pairs.                      *)
LEMMA SourceFacts ==
  ASSUME NEW c \in DOMAIN Corpora
  PROVE  RenderSource(c) \in Seq(PairsOf(c)) /\ ToSet(RenderSource(c)) = PairsOf(c)
  <1> DEFINE rows == UsableRows(c)
             n == Len(rows)
             forth(i) == Pair(Corpora[c].from, Corpora[c].to, rows[i][1], rows[i][2])
             back(i) == Pair(Corpora[c].to, Corpora[c].from, rows[i][2], rows[i][1])
             turned(i) == Corpora[c].reverse /\ picks[c][i]
             both(i) == IF turned(i) THEN <<forth(i), back(i)>> ELSE <<forth(i)>>
             seqs == [i \in DOMAIN rows |-> both(i)]
             P == PairsOf(c)
  <1>1. n \in Nat /\ DOMAIN rows = 1 .. n
    BY UsableFacts
  <1>2. RenderSource(c) = FlattenSeq(seqs)
    BY DEF RenderSource
  <1>3. P = {forth(i) : i \in 1 .. n} \cup {back(i) : i \in {j \in 1 .. n : turned(j)}}
    BY <1>1 DEF PairsOf
  <1> HIDE DEF rows, n, forth, back, turned, P
  <1>4. \A i \in 1 .. n : /\ both(i) \in Seq(P)
                          /\ ToSet(both(i)) = {forth(i)} \cup (IF turned(i) THEN {back(i)} ELSE {})
    <2> TAKE i \in 1 .. n
    <2>1. forth(i) \in P /\ (turned(i) => back(i) \in P)
      BY <1>3
    <2>2. ToSet(<<forth(i)>>) = {forth(i)} /\ ToSet(<<forth(i), back(i)>>) = {forth(i), back(i)}
      BY DEF ToSet
    <2>3. CASE turned(i)
      BY <2>1, <2>2, <2>3
    <2>4. CASE ~turned(i)
      BY <2>1, <2>2, <2>4
    <2> QED  BY <2>3, <2>4
  <1> HIDE DEF both
  <1>5. seqs \in Seq(Seq(P)) /\ Len(seqs) = n /\ \A i \in 1 .. n : seqs[i] = both(i)
    <2>1. seqs \in [1 .. n -> Seq(P)]
      BY <1>1, <1>4
    <2>2. seqs \in Seq(Seq(P)) /\ Len(seqs) = n
      BY <1>1, <2>1, FunctionSeq
    <2> QED  BY <1>1, <2>2
  <1> HIDE DEF seqs
  <1>6. /\ FlattenSeq(seqs) \in Seq(P)
        /\ ToSet(FlattenSeq(seqs)) = UNION {ToSet(seqs[i]) : i \in 1 .. n}
    BY <1>5, FlattenFacts
  <1>7. UNION {ToSet(seqs[i]) : i \in 1 .. n} = P
    <2>1. \A i \in 1 .. n : ToSet(seqs[i]) = {forth(i)} \cup (IF turned(i) THEN {back(i)} ELSE {})
      BY <1>4, <1>5
    <2>2. ASSUME NEW e \in P PROVE e \in UNION {ToSet(seqs[i]) : i \in 1 .. n}
      BY <1>3, <2>1, <2>2
    <2>3. ASSUME NEW i \in 1 .. n, NEW e \in ToSet(seqs[i]) PROVE e \in P
      BY <1>3, <2>1, <2>3
    <2> QED  BY <2>2, <2>3
  <1> QED  BY <1>2, <1>6, <1>7 DEF P

(* What is rendered are the wanted pairs, each once if duplicates are      *)
(* dropped.                                                                *)
LEMMA RenderedFacts ==
  /\ Rendered \in Seq(Wanted) /\ ToSet(Rendered) = Wanted
  /\ render.dedup => \A i, j \in 1 .. Len(Rendered) : Rendered[i] = Rendered[j] => i = j
  <1> DEFINE n == Len(Corpora)
             seqs == [c \in DOMAIN Corpora |-> RenderSource(c)]
             rows == FlattenSeq(seqs)
             W == Wanted
  <1>1. n \in Nat /\ DOMAIN Corpora = 1 .. n
    BY CorpusAssumption
  <1>2. \A c \in 1 .. n : /\ RenderSource(c) \in Seq(W)
                          /\ ToSet(RenderSource(c)) = PairsOf(c) /\ PairsOf(c) \subseteq W
    <2> TAKE c \in 1 .. n
    <2>1. RenderSource(c) \in Seq(PairsOf(c)) /\ ToSet(RenderSource(c)) = PairsOf(c)
      BY <1>1, SourceFacts
    <2>2. PairsOf(c) \subseteq W
      BY <1>1 DEF Wanted
    <2> QED  BY <2>1, <2>2
  <1>3. W = UNION {PairsOf(c) : c \in 1 .. n}
    BY <1>1 DEF Wanted
  <1> HIDE DEF W, n
  <1>4. seqs \in Seq(Seq(W)) /\ Len(seqs) = n /\ \A c \in 1 .. n : seqs[c] = RenderSource(c)
    <2>1. seqs \in [1 .. n -> Seq(W)]
      BY <1>1, <1>2
    <2>2. seqs \in Seq(Seq(W)) /\ Len(seqs) = n
      BY <1>1, <2>1, FunctionSeq
    <2> QED  BY <1>1, <2>2
  <1>5. Rendered = Dedup(rows)
    BY DEF Rendered
  <1> HIDE DEF seqs
  <1>6. rows \in Seq(W) /\ ToSet(rows) = UNION {ToSet(seqs[c]) : c \in 1 .. n}
    BY <1>4, FlattenFacts
  <1>7. ToSet(rows) = W
    <2>1. \A c \in 1 .. n : ToSet(seqs[c]) = PairsOf(c)
      BY <1>2, <1>4
    <2>2. UNION {ToSet(seqs[c]) : c \in 1 .. n} = UNION {PairsOf(c) : c \in 1 .. n}
      BY <2>1
    <2> QED  BY <1>3, <1>6, <2>2
  <1> HIDE DEF rows
  <1> DEFINE m == Len(rows)
             first == {i \in 1 .. m : \A j \in 1 .. i - 1 : rows[j] # rows[i]}
  <1>8. m \in Nat /\ DOMAIN rows = 1 .. m
    BY <1>6
  <1>9. Dedup(rows) = IF render.dedup THEN PickAt(rows, first) ELSE rows
    BY <1>8 DEF Dedup, DedupKey
  <1>10. CASE ~render.dedup
    BY <1>5, <1>6, <1>7, <1>9, <1>10 DEF W
  <1>11. CASE render.dedup
    <2>1. first \in SUBSET (1 .. m)
      OBVIOUS
    <2>2. \A i, j \in first : rows[i] = rows[j] => i = j
      <3> TAKE i, j \in first
      <3>1. i \in 1 .. m /\ j \in 1 .. m
        OBVIOUS
      <3>2. i < j => i \in 1 .. j - 1
        BY <3>1, <1>8
      <3>3. j < i => j \in 1 .. i - 1
        BY <3>1, <1>8
      <3> QED  BY <1>8, <3>1, <3>2, <3>3
    <2>3. ASSUME NEW k \in 1 .. m PROVE \E i \in first : rows[i] = rows[k]
      <3> DEFINE T == {i \in 1 .. m : rows[i] = rows[k]}
      <3>1. T \subseteq Nat /\ T # {}
        BY <1>8
      <3> HIDE DEF T
      <3>2. PICK i \in T : \A h \in T : i <= h
        BY <3>1, LeastNat
      <3> USE DEF T
      <3>3. i \in 1 .. m /\ rows[i] = rows[k]
        OBVIOUS
      <3>4. ASSUME NEW j \in 1 .. i - 1 PROVE rows[j] # rows[i]
        <4>1. j \in 1 .. m /\ j < i /\ i \in Int /\ j \in Int
          BY <1>8, <3>3
        <4>2. j \in T => i <= j
          BY <3>2
        <4> QED  BY <3>3, <4>1, <4>2
      <3> QED  BY <3>3, <3>4
    <2> HIDE DEF first
    <2> DEFINE p == PickAt(rows, first)
    <2>4. /\ p \in Seq(W)
          /\ ToSet(p) = {rows[k] : k \in first}
          /\ IsInjective(p)
      BY <1>6, <2>1, <2>2, PickAtFacts, PickedSet, PickInjective
    <2>5. ToSet(rows) = {rows[k] : k \in 1 .. m}
      BY <1>8 DEF ToSet
    <2>6. ToSet(p) = W
      BY <1>7, <2>1, <2>3, <2>4, <2>5, ZenonT(40)
    <2>7. \A i, j \in 1 .. Len(p) : p[i] = p[j] => i = j
      BY <2>4 DEF IsInjective
    <2>8. Rendered = p
      BY <1>5, <1>9, <1>11
    <2> HIDE DEF p
    <2> QED  BY <2>4, <2>6, <2>7, <2>8 DEF W
  <1> QED  BY <1>10, <1>11

(* The same settings and generators render the same rows.                  *)
LEMMA RenderedStays ==
  ASSUME render' = render, picks' = picks
  PROVE  Rendered' = Rendered /\ Wanted' = Wanted
  BY DEF Rendered, Dedup, RenderSource, UsableRows, Wanted, PairsOf, DedupKey
(* Which of the first n rows the generator draws for dev, those of them    *)
(* that fit below its cap, and the rows of either file.                    *)
Drawn(n) == {j \in 1 .. n : draws[j]}
Held(n) == {i \in 1 .. n : draws[i] /\ Cardinality(Drawn(i)) <= render.devMax}
PlacesFor(s, n) == IF s = "dev" THEN Held(n) ELSE (1 .. n) \ Held(n)

(* One row more is drawn or not; and as many are held as were drawn, up to *)
(* the cap.                                                                *)
LEMMA DrawnFacts ==
  ASSUME NEW n \in Nat, render.devMax \in Nat
  PROVE  /\ Cardinality(Drawn(n)) \in Nat /\ Cardinality(Held(n)) \in Nat
         /\ Cardinality(Drawn(n + 1)) = Cardinality(Drawn(n)) + (IF draws[n + 1] THEN 1 ELSE 0)
         /\ Held(n + 1) = Held(n) \cup
              (IF draws[n + 1] /\ Cardinality(Drawn(n)) < render.devMax THEN {n + 1} ELSE {})
  <1>1. IsFiniteSet(1 .. n)
    BY PlacesOfList
  <1>2. /\ IsFiniteSet(Drawn(n)) /\ IsFiniteSet(Held(n))
        /\ Cardinality(Drawn(n)) \in Nat /\ Cardinality(Held(n)) \in Nat
    <2>1. Drawn(n) \subseteq 1 .. n /\ Held(n) \subseteq 1 .. n
      BY DEF Drawn, Held
    <2> QED  BY <1>1, <2>1, FS_Subset, FS_CardinalityType
  <1>3. 1 .. n + 1 = (1 .. n) \cup {n + 1} /\ n + 1 \notin 1 .. n
    OBVIOUS
  <1>4. Drawn(n + 1) = IF draws[n + 1] THEN Drawn(n) \cup {n + 1} ELSE Drawn(n)
    BY <1>3 DEF Drawn
  <1>5. n + 1 \notin Drawn(n)
    BY <1>3 DEF Drawn
  <1>6. Cardinality(Drawn(n + 1)) = Cardinality(Drawn(n)) + (IF draws[n + 1] THEN 1 ELSE 0)
    <2>1. CASE draws[n + 1]
      BY <1>2, <1>4, <1>5, <2>1, FS_AddElement
    <2>2. CASE ~draws[n + 1]
      BY <1>2, <1>4, <2>2
    <2> QED  BY <2>1, <2>2
  <1>7. Held(n + 1) = Held(n) \cup
              (IF draws[n + 1] /\ Cardinality(Drawn(n)) < render.devMax THEN {n + 1} ELSE {})
    <2>1. Held(n + 1) = Held(n) \cup
              {i \in {n + 1} : draws[i] /\ Cardinality(Drawn(i)) <= render.devMax}
      BY <1>3 DEF Held
    <2>2. CASE draws[n + 1]
      <3>1. Cardinality(Drawn(n + 1)) = Cardinality(Drawn(n)) + 1
        BY <1>6, <2>2
      <3> QED  BY <1>2, <2>1, <2>2, <3>1
    <2>3. CASE ~draws[n + 1]
      BY <2>1, <2>3
    <2> QED  BY <2>2, <2>3
  <1> QED  BY <1>2, <1>6, <1>7

(* Never more than the cap is held out, and all that is drawn till then.    *)
LEMMA HeldFacts ==
  ASSUME NEW n \in Nat, render.devMax \in Nat
  PROVE  /\ Cardinality(Held(n)) <= render.devMax
         /\ Cardinality(Held(n)) < render.devMax <=> Cardinality(Drawn(n)) < render.devMax
  <1> DEFINE m == render.devMax
             d(k) == Cardinality(Drawn(k))
             h(k) == Cardinality(Held(k))
             T == {k \in Nat : h(k) = IF d(k) <= m THEN d(k) ELSE m}
  <1>1. 0 \in T
    <2>1. Drawn(0) = {} /\ Held(0) = {}
      BY DEF Drawn, Held
    <2> QED  BY <2>1, FS_EmptySet
  <1>2. ASSUME NEW k \in Nat, h(k) = IF d(k) <= m THEN d(k) ELSE m
        PROVE  h(k + 1) = IF d(k + 1) <= m THEN d(k + 1) ELSE m
    <2>1. /\ d(k) \in Nat /\ h(k) \in Nat
          /\ d(k + 1) = d(k) + (IF draws[k + 1] THEN 1 ELSE 0)
          /\ Held(k + 1) = Held(k) \cup (IF draws[k + 1] /\ d(k) < m THEN {k + 1} ELSE {})
      BY DrawnFacts
    <2>2. k + 1 \notin Held(k) /\ IsFiniteSet(Held(k))
      <3>1. Held(k) \subseteq 1 .. k
        BY DEF Held
      <3> QED  BY <3>1, PlacesOfList, FS_Subset
    <2>3. CASE draws[k + 1] /\ d(k) < m
      <3>1. Held(k + 1) = Held(k) \cup {k + 1}
        BY <2>1, <2>3
      <3>2. h(k + 1) = h(k) + 1
        BY <2>2, <3>1, FS_AddElement
      <3>3. m \in Nat /\ d(k + 1) = d(k) + 1
        BY <2>1, <2>3
      <3> HIDE DEF d, h, m
      <3> QED  BY <1>2, <2>1, <2>3, <3>2, <3>3
    <2>4. CASE ~(draws[k + 1] /\ d(k) < m)
      <3>1. h(k + 1) = h(k)
        BY <2>1, <2>4
      <3>2. m \in Nat /\ (d(k + 1) = d(k) \/ (d(k + 1) = d(k) + 1 /\ ~(d(k) < m)))
        BY <2>1, <2>4
      <3> HIDE DEF d, h, m
      <3> QED  BY <1>2, <2>1, <3>1, <3>2
    <2> QED  BY <2>3, <2>4
  <1>3. ASSUME NEW k \in T PROVE k + 1 \in T
    <2>1. k \in Nat /\ h(k) = IF d(k) <= m THEN d(k) ELSE m
      OBVIOUS
    <2> HIDE DEF d, h, m
    <2>2. h(k + 1) = IF d(k + 1) <= m THEN d(k + 1) ELSE m
      BY <1>2, <2>1
    <2>3. k + 1 \in Nat
      BY <2>1
    <2> QED  BY <2>2, <2>3
  <1>4. T \subseteq Nat
    OBVIOUS
  <1> HIDE DEF T
  <1>5. T = Nat
    BY <1>1, <1>3, <1>4, NatSetInduction
  <1>6. h(n) = IF d(n) <= m THEN d(n) ELSE m
    <2> HIDE DEF d, h, m
    <2> QED  BY <1>5 DEF T
  <1>7. d(n) \in Nat
    BY DrawnFacts
  <1> HIDE DEF d, h
  <1>8. h(n) <= m /\ (h(n) < m <=> d(n) < m)
    BY <1>6, <1>7
  <1> QED  BY <1>8 DEF d, h

(* The files hold what is theirs of the first n rows.                      *)
FilesAt(n) == file = [s \in DataSplits |-> PickAt(Rendered, PlacesFor(s, n))]
FittingOf(q) == PickAt(q, {i \in DOMAIN q : Fits(q[i])})
Wholly(s) == FittingOf(PickAt(Rendered, PlacesFor(s, Len(Rendered))))

(* The files are those of the rows rendered so far, all of them once a     *)
(* finetune may begin, and a saved cache is of all.                        *)
DealtInv ==
    /\ render.devMax \in Nat
    /\ rPos # -1 => rPos \in 0 .. Len(Rendered) /\ FilesAt(rPos) /\ ~whole
    /\ whole => FilesAt(Len(Rendered))
    /\ \A r \in GpuRanks : rank[r] # "off" => whole
    /\ \A s \in DataSplits : cache[s].state = "saved" => cache[s].rows = Wholly(s)

(* What leaves the files, the caches and the ranks alone keeps it.         *)
LEMMA DealtStays ==
  ASSUME DealtInv, render' = render, draws' = draws, picks' = picks, file' = file,
         rPos' = rPos \/ rPos' = -1, whole' = whole,
         \A r \in GpuRanks : rank'[r] # "off" => whole,
         \A s \in DataSplits : cache'[s].state = "saved" =>
            cache'[s] = cache[s] \/ cache'[s].rows = Wholly(s)
  PROVE  DealtInv'
  <1>1. Rendered' = Rendered
    BY RenderedStays
  <1>2. \A s, n : PlacesFor(s, n)' = PlacesFor(s, n)
    BY DEF PlacesFor, Held, Drawn
  <1>3. \A n : FilesAt(n)' = FilesAt(n)
    BY <1>1, <1>2 DEF FilesAt
  <1>4. \A s : Wholly(s)' = Wholly(s)
    BY <1>1, <1>2 DEF Wholly, FittingOf, Fits
  <1> QED  BY <1>1, <1>3, <1>4 DEF DealtInv

(* A line goes where its row belongs.                                      *)
LEMMA LineDealt ==
  ASSUME DealtInv, RenderLine
  PROVE  DealtInv'
  <1> DEFINE n == rPos
             R == Rendered
             here == IF ToDev THEN "dev" ELSE "train"
  <1>1. /\ n \in Nat /\ n < Len(R) /\ render.devMax \in Nat /\ n # -1
        /\ rPos' = n + 1 /\ file' = [file EXCEPT ![here] = Append(@, R[n + 1])]
        /\ render' = render /\ draws' = draws /\ picks' = picks /\ whole' = whole
        /\ cache' = cache /\ rank' = rank
    <2>1. Len(R) \in Nat
      BY RenderedFacts
    <2> QED  BY <2>1 DEF RenderLine, DealtInv, cacheVars
  <1>2. /\ file = [s \in DataSplits |-> PickAt(R, PlacesFor(s, n))] /\ ~whole
        /\ \A r \in GpuRanks : rank[r] # "off" => whole
        /\ \A s \in DataSplits : cache[s].state = "saved" => cache[s].rows = Wholly(s)
    BY <1>1 DEF DealtInv, FilesAt
  <1>3. R \in Seq(Wanted)
    BY RenderedFacts
  <1>4. \A s \in DataSplits : PlacesFor(s, n) \in SUBSET (1 .. n)
    BY DEF PlacesFor, Held
  <1>5. PlacesFor("dev", n + 1) = PlacesFor("dev", n) \cup (IF ToDev THEN {n + 1} ELSE {})
    <2>1. file["dev"] = PickAt(R, Held(n))
      BY <1>2 DEF PlacesFor, DataSplits
    <2>2. Held(n) \in SUBSET (1 .. Len(R))
      <3>1. Held(n) \subseteq 1 .. n /\ Len(R) \in Nat
        BY <1>3 DEF Held
      <3> QED  BY <1>1, <3>1
    <2>3. Len(file["dev"]) = Cardinality(Held(n))
      BY <1>3, <2>1, <2>2, PickAtFacts
    <2>4. ToDev <=> draws[n + 1] /\ Cardinality(Drawn(n)) < render.devMax
      BY <1>1, <2>3, HeldFacts DEF ToDev
    <2>5. Held(n + 1) = Held(n) \cup
              (IF draws[n + 1] /\ Cardinality(Drawn(n)) < render.devMax THEN {n + 1} ELSE {})
      BY <1>1, DrawnFacts
    <2> QED  BY <2>4, <2>5 DEF PlacesFor
  <1>6. PlacesFor("train", n + 1) = PlacesFor("train", n) \cup (IF ToDev THEN {} ELSE {n + 1})
    <2>1. 1 .. n + 1 = (1 .. n) \cup {n + 1} /\ n + 1 \notin 1 .. n /\ n + 1 \notin Held(n)
      BY <1>1 DEF Held
    <2>2. Held(n + 1) = Held(n) \cup (IF ToDev THEN {n + 1} ELSE {})
      BY <1>5 DEF PlacesFor
    <2>3. PlacesFor("train", n + 1) = (1 .. n + 1) \ Held(n + 1)
          /\ PlacesFor("train", n) = (1 .. n) \ Held(n)
      BY DEF PlacesFor
    <2>4. CASE ToDev
      <3>1. Held(n + 1) = Held(n) \cup {n + 1}
        BY <2>2, <2>4
      <3>2. (1 .. n + 1) \ Held(n + 1) = (1 .. n) \ Held(n)
        BY <2>1, <3>1
      <3> QED  BY <2>3, <2>4, <3>2
    <2>5. CASE ~ToDev
      <3>1. Held(n + 1) = Held(n)
        BY <2>2, <2>5
      <3>2. (1 .. n + 1) \ Held(n + 1) = ((1 .. n) \ Held(n)) \cup {n + 1}
        BY <2>1, <3>1
      <3> QED  BY <2>3, <2>5, <3>2
    <2> QED  BY <2>4, <2>5
  <1>7. \A s \in DataSplits : PlacesFor(s, n + 1) = IF s = here THEN PlacesFor(s, n) \cup {n + 1} ELSE PlacesFor(s, n)
    BY <1>5, <1>6 DEF DataSplits
  <1>8. \A s \in DataSplits :
          PickAt(R, PlacesFor(s, n) \cup {n + 1}) = Append(PickAt(R, PlacesFor(s, n)), R[n + 1])
    BY <1>1, <1>3, <1>4, PickNext
  <1>9. here \in DataSplits
    BY DEF DataSplits
  <1>10. file' = [s \in DataSplits |-> PickAt(R, PlacesFor(s, n + 1))]
    <2> HIDE DEF here, n, R
    <2>1. file' = [s \in DataSplits |->
                     IF s = here THEN Append(PickAt(R, PlacesFor(s, n)), R[n + 1]) ELSE PickAt(R, PlacesFor(s, n))]
      BY <1>1, <1>2, <1>9
    <2>2. \A s \in DataSplits : PickAt(R, PlacesFor(s, n + 1)) =
             IF s = here THEN Append(PickAt(R, PlacesFor(s, n)), R[n + 1]) ELSE PickAt(R, PlacesFor(s, n))
      BY <1>7, <1>8
    <2> QED  BY <2>1, <2>2
  <1>11. R' = R
    BY <1>1, RenderedStays
  <1>12. \A s, k : PlacesFor(s, k)' = PlacesFor(s, k)
    BY <1>1 DEF PlacesFor, Held, Drawn
  <1>13. FilesAt(rPos)'
    <2>1. \A s : PlacesFor(s, rPos)' = PlacesFor(s, n + 1)
      BY <1>1 DEF PlacesFor, Held, Drawn
    <2> QED  BY <1>10, <1>11, <2>1 DEF FilesAt
  <1>14. \A s : Wholly(s)' = Wholly(s)
    BY <1>11, <1>12 DEF Wholly, FittingOf, Fits
  <1>15. rPos' # -1 => rPos' \in 0 .. Len(Rendered') /\ FilesAt(rPos)' /\ ~whole'
    <2>1. n + 1 \in 0 .. Len(R)
      BY <1>1, <1>3
    <2> QED  BY <1>1, <1>2, <1>11, <1>13, <2>1
  <1>16. (\A r \in GpuRanks : rank[r] # "off" => whole)'
    BY <1>1, <1>2
  <1>17. (\A s \in DataSplits : cache[s].state = "saved" => cache[s].rows = Wholly(s))'
    BY <1>1, <1>2, <1>14
  <1> QED  BY <1>1, <1>2, <1>15, <1>16, <1>17 DEF DealtInv

(* A render starts on empty files.                                         *)
LEMMA RenderStarts ==
  ASSUME DealtInv, StartRender
  PROVE  DealtInv'
  <1>1. /\ rPos' = 0 /\ whole' = FALSE /\ file' = NoRows /\ Idle
        /\ render' = render /\ draws' = draws /\ picks' = picks
        /\ cache' = cache /\ rank' = rank
    BY DEF StartRender, cacheVars
  <1>2. Rendered' = Rendered /\ Rendered \in Seq(Wanted)
    BY <1>1, RenderedStays, RenderedFacts
  <1>3. \A s, k : PlacesFor(s, k)' = PlacesFor(s, k)
    BY <1>1 DEF PlacesFor, Held, Drawn
  <1>4. \A s : Wholly(s)' = Wholly(s)
    BY <1>2, <1>3 DEF Wholly, FittingOf, Fits
  <1>5. \A s \in DataSplits : PickAt(Rendered, PlacesFor(s, 0)) = <<>>
    <2>1. \A s \in DataSplits : PlacesFor(s, 0) = {}
      BY DEF PlacesFor, Held
    <2>2. PickAt(Rendered, {}) \in Seq(Wanted) /\ Len(PickAt(Rendered, {})) = 0
      BY <1>2, PickAtFacts, FS_EmptySet
    <2>3. PickAt(Rendered, {}) = <<>>
      BY <2>2
    <2> QED  BY <2>1, <2>3
  <1>6. \A s : PlacesFor(s, rPos)' = PlacesFor(s, 0)
    BY <1>1 DEF PlacesFor, Held, Drawn
  <1>7. FilesAt(rPos)' /\ 0 \in 0 .. Len(Rendered)
    BY <1>1, <1>2, <1>5, <1>6 DEF FilesAt, NoRows
  <1> QED  BY <1>1, <1>2, <1>4, <1>7 DEF DealtInv, Idle

(* What a rank saves of a split is all that fits of it.                    *)
LEMMA SavesWhole ==
  ASSUME DealtInv, NEW r \in GpuRanks, rank[r] \in DataSplits
  PROVE  Filtered(rank[r]) = Wholly(rank[r])
  <1>1. FilesAt(Len(Rendered))
    BY DEF DealtInv, DataSplits
  <1>2. file[rank[r]] = PickAt(Rendered, PlacesFor(rank[r], Len(Rendered)))
    BY <1>1 DEF FilesAt
  <1> QED  BY <1>2 DEF Filtered, Wholly, FittingOf

(* What is held out and what is trained on are all wanted pairs that fit,  *)
(* and no pair twice.                                                      *)
LEMMA WhollyHeldOut ==
  ASSUME render.devMax \in Nat, NEW d, \A s \in DataSplits : d[s] = Wholly(s)
  PROVE  HeldOut(d)
  <1> DEFINE R == Rendered
             n == Len(R)
             K(s) == PlacesFor(s, n)
             of(s) == PickAt(R, K(s))
             J(s) == {i \in DOMAIN of(s) : Fits(of(s)[i])}
  <1>1. R \in Seq(Wanted) /\ ToSet(R) = Wanted /\ n \in Nat
        /\ (render.dedup => \A i, j \in 1 .. n : R[i] = R[j] => i = j)
    BY RenderedFacts
  <1>2. K("train") \in SUBSET (1 .. n) /\ K("dev") \in SUBSET (1 .. n)
        /\ K("train") \cup K("dev") = 1 .. n /\ K("train") \cap K("dev") = {}
    BY DEF PlacesFor, Held
  <1>3. d["train"] = PickAt(of("train"), J("train")) /\ d["dev"] = PickAt(of("dev"), J("dev"))
    BY DEF Wholly, FittingOf, DataSplits
  <1>4. K("dev") = Held(n)
    BY DEF PlacesFor
  <1> HIDE DEF R, n, K
  <1>5. ASSUME NEW s \in DataSplits
        PROVE  /\ of(s) \in Seq(Wanted) /\ Len(of(s)) = Cardinality(K(s))
               /\ ToSet(of(s)) = {R[k] : k \in K(s)}
               /\ render.dedup => IsInjective(of(s))
               /\ J(s) \in SUBSET (1 .. Len(of(s)))
    <2>1. K(s) \in SUBSET (1 .. Len(R))
      BY <1>2 DEF DataSplits, n
    <2>2. of(s) \in Seq(Wanted) /\ Len(of(s)) = Cardinality(K(s)) /\ ToSet(of(s)) = {R[k] : k \in K(s)}
      BY <1>1, <2>1, PickAtFacts, PickedSet
    <2>3. render.dedup => IsInjective(of(s))
      <3> SUFFICES ASSUME render.dedup PROVE IsInjective(of(s))
        OBVIOUS
      <3>1. \A i, j \in K(s) : R[i] = R[j] => i = j
        BY <1>1, <2>1 DEF n
      <3> QED  BY <1>1, <2>1, <3>1, PickInjective
    <2> HIDE DEF of
    <2>4. J(s) \in SUBSET (1 .. Len(of(s)))
      BY <2>2
    <2> QED  BY <2>2, <2>3, <2>4
  <1> DEFINE D(s) == PickAt(of(s), J(s))
  <1>6. ASSUME NEW s \in DataSplits
        PROVE  /\ D(s) \in Seq(Wanted) /\ Len(D(s)) <= Cardinality(K(s))
               /\ ToSet(D(s)) = {e \in ToSet(of(s)) : Fits(e)}
               /\ render.dedup => IsInjective(D(s))
    <2> DEFINE q == of(s)
               L == J(s)
    <2>1. q \in Seq(Wanted) /\ L \in SUBSET (1 .. Len(q)) /\ Len(q) \in Nat
      BY <1>5
    <2>2. DOMAIN q = 1 .. Len(q) /\ L = {i \in 1 .. Len(q) : Fits(q[i])}
      <3>1. DOMAIN q = 1 .. Len(q)
        BY <2>1
      <3> QED  BY <3>1
    <2>3. ToSet(q) = {q[i] : i \in 1 .. Len(q)}
      BY <2>2 DEF ToSet
    <2>4. render.dedup => IsInjective(q)
      BY <1>5
    <2>5. Len(q) = Cardinality(K(s))
      BY <1>5
    <2> HIDE DEF q, L
    <2>6. /\ PickAt(q, L) \in Seq(Wanted) /\ Len(PickAt(q, L)) = Cardinality(L)
          /\ ToSet(PickAt(q, L)) = {q[i] : i \in L}
      BY <2>1, PickAtFacts, PickedSet
    <2>7. Cardinality(L) <= Len(q)
      BY <2>1, PlacesFacts
    <2>8. {q[i] : i \in L} = {e \in ToSet(q) : Fits(e)}
      BY <2>2, <2>3
    <2>9. render.dedup => IsInjective(PickAt(q, L))
      <3> SUFFICES ASSUME render.dedup PROVE IsInjective(PickAt(q, L))
        OBVIOUS
      <3>1. \A i, j \in L : q[i] = q[j] => i = j
        BY <2>2, <2>4 DEF IsInjective
      <3> QED  BY <2>1, <3>1, PickInjective
    <2> QED  BY <2>5, <2>6, <2>7, <2>8, <2>9 DEF q, L
  <1> HIDE DEF D
  <1>7. d["train"] = D("train") /\ d["dev"] = D("dev")
    BY <1>3 DEF D
  <1> HIDE DEF of
  <1>8. "train" \in DataSplits /\ "dev" \in DataSplits
    BY DEF DataSplits
  <1>9. ToSet(of("train")) \cup ToSet(of("dev")) = Wanted
    <2>1. ToSet(R) = {R[k] : k \in 1 .. n}
      BY <1>1 DEF ToSet, n
    <2>2. ToSet(of("train")) = {R[k] : k \in K("train")} /\ ToSet(of("dev")) = {R[k] : k \in K("dev")}
      BY <1>5, <1>8
    <2>3. {R[k] : k \in K("train")} \cup {R[k] : k \in K("dev")} = {R[k] : k \in K("train") \cup K("dev")}
      OBVIOUS
    <2> QED  BY <1>1, <1>2, <2>1, <2>2, <2>3
  <1>10. ToSet(D("train")) \cup ToSet(D("dev")) = {row \in Wanted : Fits(row)}
    <2>1. /\ ToSet(D("train")) = {e \in ToSet(of("train")) : Fits(e)}
          /\ ToSet(D("dev")) = {e \in ToSet(of("dev")) : Fits(e)}
      BY <1>6, <1>8
    <2>2. {e \in ToSet(of("train")) : Fits(e)} \cup {e \in ToSet(of("dev")) : Fits(e)}
            = {e \in ToSet(of("train")) \cup ToSet(of("dev")) : Fits(e)}
      OBVIOUS
    <2> QED  BY <1>9, <2>1, <2>2
  <1>11. Len(D("dev")) <= render.devMax
    <2>1. Cardinality(K("dev")) <= render.devMax /\ Cardinality(K("dev")) \in Nat
      BY <1>1, <1>4, HeldFacts, DrawnFacts
    <2>2. Len(D("dev")) <= Cardinality(K("dev")) /\ Len(D("dev")) \in Nat
      BY <1>6, <1>8
    <2> QED  BY <2>1, <2>2
  <1>12. render.dedup => IsInjective(D("train") \o D("dev"))
    <2> SUFFICES ASSUME render.dedup PROVE IsInjective(D("train") \o D("dev"))
      OBVIOUS
    <2>1. D("train") \in Seq(Wanted) /\ D("dev") \in Seq(Wanted)
          /\ IsInjective(D("train")) /\ IsInjective(D("dev"))
      BY <1>6, <1>8
    <2>2. ToSet(D("train")) \cap ToSet(D("dev")) = {}
      <3>1. ToSet(D("train")) \subseteq ToSet(of("train")) /\ ToSet(D("dev")) \subseteq ToSet(of("dev"))
        BY <1>6, <1>8
      <3>2. ToSet(of("train")) = {R[k] : k \in K("train")} /\ ToSet(of("dev")) = {R[k] : k \in K("dev")}
        BY <1>5, <1>8
      <3>3. \A i \in K("train"), j \in K("dev") : R[i] # R[j]
        BY <1>1, <1>2
      <3>4. {R[k] : k \in K("train")} \cap {R[k] : k \in K("dev")} = {}
        BY <3>3
      <3> QED  BY <3>1, <3>2, <3>4
    <2> QED  BY <2>1, <2>2, ConcatFacts
  <1> QED  BY <1>7, <1>10, <1>11, <1>12 DEF HeldOut

(* A rank that loads, builds or saves a cache leaves no other rows in it.  *)
LEMMA RanksDealt ==
  ASSUME DealtInv, CorpusInv, NEW r \in GpuRanks,
         LoadCached(r) \/ BuildCache(r) \/ SaveCache(r)
  PROVE  DealtInv'
  <1>1. CorpusType /\ SavingInv
    BY DEF CorpusInv
  <1>2. /\ render' = render /\ draws' = draws /\ picks' = picks /\ file' = file
        /\ rPos' = rPos /\ whole' = whole
    BY DEF LoadCached, BuildCache, SaveCache, renderVars
  <1>3. rank[r] \in DataSplits /\ rank[r] # "off"
    BY <1>1 DEF LoadCached, BuildCache, SaveCache, SavingInv, DataSplits
  <1>4. whole
    BY <1>3 DEF DealtInv
  <1>5. DOMAIN cache = DataSplits
    BY <1>1 DEF CorpusType
  <1>6. CASE LoadCached(r)
    <2>1. cache' = cache
      BY <1>6 DEF LoadCached
    <2> QED  BY <1>2, <1>4, <2>1, DealtStays
  <1>7. CASE BuildCache(r)
    <2>1. \A s \in DataSplits : cache'[s].state = "saved" => cache'[s] = cache[s]
      BY <1>3, <1>5, <1>7 DEF BuildCache, Cached
    <2> QED  BY <1>2, <1>4, <2>1, DealtStays
  <1>8. CASE SaveCache(r)
    <2> DEFINE here == rank[r]
               rows == Filtered(here)
    <2>1. rows = Wholly(here)
      BY <1>3, SavesWhole
    <2>2. cache' = [cache EXCEPT ![here] = Cached("saved", rows)]
      BY <1>8 DEF SaveCache
    <2>3. here \in DataSplits
      BY <1>3
    <2> HIDE DEF here, rows
    <2>4. \A s \in DataSplits : cache'[s] = cache[s] \/ cache'[s].rows = Wholly(s)
      BY <1>5, <2>1, <2>2, <2>3 DEF Cached
    <2> QED  BY <1>2, <1>4, <2>4, DealtStays
  <1> QED  BY <1>6, <1>7, <1>8

(* Every step keeps the files and the caches to the rows that are rendered. *)
THEOREM CorpusDealt == CorpusSpec => []DealtInv
  <1>1. CorpusInit => DealtInv
    <2> SUFFICES ASSUME CorpusInit PROVE DealtInv
      OBVIOUS
    <2>1. /\ render \in Renders /\ rPos = -1 /\ whole = FALSE
          /\ rank = [r \in GpuRanks |-> "off"]
          /\ cache = [s \in DataSplits |-> Cached("none", <<>>)]
      BY DEF CorpusInit
    <2>2. render.devMax \in Nat
      BY <2>1, CorpusAssumption
    <2> QED  BY <2>1, <2>2 DEF DealtInv, Cached
  <1>2. DealtInv /\ CorpusInv /\ [CorpusNext]_corpusVars => DealtInv'
    <2> SUFFICES ASSUME DealtInv, CorpusInv, [CorpusNext]_corpusVars PROVE DealtInv'
      OBVIOUS
    <2>1. CASE StartRender
      BY <2>1, RenderStarts
    <2>2. CASE RenderLine
      BY <2>2, LineDealt
    <2>3. CASE EndRender
      <3>1. /\ rPos = Len(Rendered) /\ rPos' = -1 /\ file' = file
            /\ render' = render /\ draws' = draws /\ picks' = picks
            /\ cache' = cache /\ rank' = rank
        BY <2>3 DEF EndRender, cacheVars
      <3>2. Rendered' = Rendered /\ Rendered \in Seq(Wanted)
        BY <3>1, RenderedStays, RenderedFacts
      <3>3. rPos # -1
        BY <3>1, <3>2
      <3>4. FilesAt(Len(Rendered)) /\ ~whole
        BY <3>1, <3>3 DEF DealtInv
      <3>5. \A s, n : PlacesFor(s, n)' = PlacesFor(s, n)
        BY <3>1 DEF PlacesFor, Held, Drawn
      <3>6. FilesAt(Len(Rendered))'
        <4>1. \A s : PlacesFor(s, Len(Rendered))' = PlacesFor(s, Len(Rendered))
          BY <3>1, <3>2 DEF PlacesFor, Held, Drawn
        <4> QED  BY <3>1, <3>2, <3>4, <4>1 DEF FilesAt
      <3>7. \A s : Wholly(s)' = Wholly(s)
        BY <3>2, <3>5 DEF Wholly, FittingOf, Fits
      <3> QED  BY <3>1, <3>4, <3>6, <3>7 DEF DealtInv
    <2>4. CASE Launch
      <3>1. /\ whole /\ render' = render /\ draws' = draws /\ picks' = picks /\ file' = file
            /\ rPos' = rPos /\ whole' = whole /\ cache' = cache
        BY <2>4 DEF Launch, renderVars
      <3> QED  BY <3>1, DealtStays
    <2>5. CASE TuneStep \/ EndTune \/ \E r \in GpuRanks : Acquire(r) \/ ResumeFrom(r)
      <3>1. /\ render' = render /\ draws' = draws /\ picks' = picks /\ file' = file
            /\ rPos' = rPos /\ whole' = whole /\ cache' = cache
        BY <2>5 DEF TuneStep, EndTune, Acquire, ResumeFrom, renderVars, cacheVars
      <3>2. \A q \in GpuRanks : rank'[q] # "off" => rank[q] # "off"
        <4>1. CASE TuneStep \/ \E r \in GpuRanks : Acquire(r)
          BY <4>1 DEF TuneStep, Acquire
        <4>2. CASE EndTune
          BY <4>2 DEF EndTune
        <4>3. CASE \E r \in GpuRanks : ResumeFrom(r)
          <5>1. PICK r \in GpuRanks : rank[r] = "loaded" /\ rank' = [rank EXCEPT ![r] = "tuning"]
            BY <4>3 DEF ResumeFrom
          <5>2. DOMAIN rank = GpuRanks
            BY DEF CorpusInv, CorpusType
          <5> QED  BY <5>1, <5>2
        <4> QED  BY <2>5, <4>1, <4>2, <4>3
      <3>3. \A q \in GpuRanks : rank'[q] # "off" => whole
        BY <3>2 DEF DealtInv
      <3> QED  BY <3>1, <3>3, DealtStays
    <2>6. CASE KillCorpusJob
      <3>1. /\ render' = render /\ draws' = draws /\ picks' = picks /\ file' = file
            /\ rPos' = -1 /\ whole' = whole /\ cache' = cache
            /\ rank' = [r \in GpuRanks |-> "off"]
        BY <2>6 DEF KillCorpusJob, AllOff
      <3> QED  BY <3>1, DealtStays
    <2>7. ASSUME NEW r \in GpuRanks, LoadCached(r) \/ BuildCache(r) \/ SaveCache(r)
          PROVE  DealtInv'
      BY <2>7, RanksDealt
    <2>8. CASE UNCHANGED corpusVars
      <3>1. /\ render' = render /\ draws' = draws /\ picks' = picks /\ file' = file
            /\ rPos' = rPos /\ whole' = whole /\ cache' = cache /\ rank' = rank
        BY <2>8 DEF corpusVars
      <3>2. \A q \in GpuRanks : rank'[q] # "off" => whole
        BY <3>1 DEF DealtInv
      <3> QED  BY <3>1, <3>2, DealtStays
    <2> QED  BY <2>1, <2>2, <2>3, <2>4, <2>5, <2>6, <2>7, <2>8 DEF CorpusNext
  <1> QED  BY <1>1, <1>2, CorpusInductive, PTL DEF CorpusSpec

(* The ranks that train have the same data, which with what is held out is *)
(* every wanted pair that fits, each once and at most the cap of them held *)
(* out, and resumed from the same step: for any corpora, number of ranks,  *)
(* kills and checkpoints.                                                  *)
THEOREM CorpusAlike == CorpusSpec => []RanksTrainAlike
  <1>1. CorpusInv => RanksAgree
    <2> SUFFICES ASSUME CorpusInv, NEW r \in GpuRanks, NEW q \in GpuRanks,
                        rank[r] = "tuning", rank[q] = "tuning"
                 PROVE  data[q] = data[r] /\ resumed[q] = resumed[r]
      BY DEF RanksAgree
    <2>1. CorpusType /\ GotInv /\ ResumedInv
      BY DEF CorpusInv
    <2>2. \A s \in DataSplits : data[r][s] = cache[s].rows /\ data[q][s] = cache[s].rows
      BY <2>1 DEF GotInv, Past
    <2>3. /\ data[r] = [s \in DataSplits |-> data[r][s]]
          /\ data[q] = [s \in DataSplits |-> data[q][s]]
      BY <2>1 DEF CorpusType
    <2>4. data[q] = data[r]
      BY <2>2, <2>3
    <2>5. resumed[q] = resumed[r]
      BY <2>1 DEF ResumedInv
    <2> QED  BY <2>4, <2>5
  <1>2. CorpusInv /\ DealtInv => PairsHeldOut
    <2> SUFFICES ASSUME CorpusInv, DealtInv, NEW r \in GpuRanks, rank[r] = "tuning"
                 PROVE  HeldOut(data[r])
      BY DEF PairsHeldOut
    <2>1. \A s \in DataSplits : cache[s].state = "saved" /\ data[r][s] = cache[s].rows
      BY DEF CorpusInv, GotInv, Past
    <2>2. \A s \in DataSplits : data[r][s] = Wholly(s)
      BY <2>1 DEF DealtInv
    <2> QED  BY <2>2, WhollyHeldOut DEF DealtInv
  <1> QED  BY <1>1, <1>2, CorpusInductive, CorpusDealt, PTL DEF RanksTrainAlike

-----------------------------------------------------------------------------
(* The data of the layout model.                                              *)

(* What the elements of a finite set are mapped to is finite.                 *)
LEMMA ImageFinite ==
  ASSUME NEW S, IsFiniteSet(S), NEW f
  PROVE  IsFiniteSet({f[x] : x \in S})
  <1> DEFINE T == {f[x] : x \in S}
             g == [x \in S |-> f[x]]
  <1>1. g \in Surjection(S, T)
    BY DEF Surjection
  <1> HIDE DEF T, g
  <1> QED  BY <1>1, FS_Surjection DEF ExistsSurjection, T

(* A finite set of numbers in their order.                                    *)
LEMMA InOrderFacts ==
  ASSUME NEW K, IsFiniteSet(K), K \subseteq Nat \ {0}
  PROVE  /\ InOrder(K) \in Seq(K) /\ ToSet(InOrder(K)) = K /\ IsInjective(InOrder(K))
         /\ Len(InOrder(K)) = Cardinality(K) /\ Cardinality(K) \in Nat
  <1> DEFINE h == [k \in K |-> k]
             m == Max(K \cup {0})
             s == [i \in 1 .. m |-> i]
             p == PickAt(s, K)
  <1>1. PICK b \in Nat : \A k \in K : k <= b
    <2>1. h \in [K -> Nat]
      OBVIOUS
    <2>2. \E b \in Nat : \A k \in K : h[k] <= b
      <3> HIDE DEF h
      <3> QED  BY <2>1, BoundedFamily
    <2> QED  BY <2>2
  <1>2. m \in K \cup {0} /\ \A k \in K : k <= m
    <2>1. K \cup {0} \subseteq 0 .. b /\ K \cup {0} # {}
      BY <1>1
    <2> QED  BY <2>1, ExtremeFacts
  <1> HIDE DEF m
  <1>3. m \in Nat
    BY <1>2
  <1>4. K \in SUBSET (1 .. m) /\ \A k \in K : k \in 1 .. m
    <2>1. ASSUME NEW k \in K PROVE k \in 1 .. m
      BY <1>2, <1>3
    <2> QED  BY <2>1
  <1>5. s \in Seq(1 .. m) /\ Len(s) = m
    <2>1. s \in [1 .. m -> 1 .. m]
      OBVIOUS
    <2> HIDE DEF s
    <2> QED  BY <1>3, <2>1, FunctionSeq
  <1>6. /\ \A i \in K : s[i] = i
        /\ {s[k] : k \in K} = K
    <2>1. \A i \in K : s[i] = i
      BY <1>4
    <2> HIDE DEF s
    <2> QED  BY <2>1
  <1>7. \A i, j \in K : s[i] = s[j] => i = j
    BY <1>6
  <1> HIDE DEF s
  <1>8. /\ Cardinality(K) \in Nat /\ p \in Seq(1 .. m) /\ Len(p) = Cardinality(K)
        /\ ToSet(p) = K /\ IsInjective(p)
    <2>1. K \in SUBSET (1 .. Len(s))
      BY <1>4, <1>5
    <2>2. /\ Cardinality(K) \in Nat /\ p \in Seq(1 .. m) /\ Len(p) = Cardinality(K)
          /\ ToSet(p) = {s[k] : k \in K}
      BY <1>5, <2>1, PickAtFacts, PickedSet, SMTT(40)
    <2>3. IsInjective(p)
      BY <1>5, <1>7, <2>1, PickInjective
    <2> QED  BY <1>6, <2>2, <2>3
  <1> HIDE DEF p
  <1>9. p \in Seq(K)
    <2>1. \A i \in 1 .. Len(p) : p[i] \in K
      BY <1>8 DEF ToSet
    <2>2. p \in [1 .. Len(p) -> K] /\ Len(p) \in Nat
      BY <1>8, <2>1
    <2> QED  BY <2>2, FunctionSeq
  <1>10. InOrder(K) = p
    BY DEF InOrder, p, s, m
  <1> QED  BY <1>8, <1>9, <1>10

(* The pages that are annotated, and what their labels may be.                *)
PageSet == [source : Sources, stem : Nat]
Paper == {p \in PageSet : OnPaper(p)}
Labels(p, strips) == LabelsFromDoc(DocOf(p), strips)
LabelRange == UNION {ToSet(Labels(p, b)) : p \in Paper, b \in BOOLEAN}

(* The labels of a page are a list.                                           *)
LEMMA LabelsFacts ==
  ASSUME NEW page \in Paper, NEW strips \in BOOLEAN
  PROVE  Labels(page, strips) \in Seq(LabelRange)
  <1> DEFINE doc == DocOf(page)
             K == {k \in DOMAIN doc.content : doc.content[k].good}
             good == PickAt(doc.content, K)
             n == Cardinality(K)
             content == [k \in DOMAIN good |->
                           [box |-> good[k].box, rank |-> IF good[k].rank = Unranked THEN k ELSE good[k].rank]]
             ranks == IF content = <<>> THEN {0} ELSE {content[k].rank : k \in DOMAIN content}
             head == Edge(doc, "header", Min(ranks) - 1, strips)
             foot == Edge(doc, "footer", Max(ranks) + 1, strips)
             X == ToSet(content) \cup ToSet(head) \cup ToSet(foot)
             L == (content \o head) \o foot
  <1>1. doc.content \in Seq(ToSet(doc.content))
    BY LayoutAssumption DEF Paper, PageSet, OnPaper, DocOf, Sources
  <1>2. n \in Nat /\ DOMAIN good = 1 .. n
    <2>1. K \in SUBSET (1 .. Len(doc.content))
      BY <1>1
    <2> DEFINE q == doc.content
    <2> HIDE DEF K, doc
    <2>2. n \in Nat /\ good \in Seq(ToSet(q)) /\ Len(good) = n
      <3> HIDE DEF q
      <3> QED  BY <1>1, <2>1, PickAtFacts DEF q
    <2> QED  BY <2>2
  <1>3. content \in Seq(X)
    <2> HIDE DEF good, n
    <2>1. DOMAIN content = 1 .. n /\ \A k \in 1 .. n : content[k] \in X
      BY <1>2 DEF ToSet
    <2>2. content = [k \in 1 .. n |-> content[k]]
      BY <2>1
    <2> HIDE DEF content, X
    <2>3. content \in [1 .. n -> X]
      BY <2>1, <2>2
    <2> QED  BY <1>2, <2>3, FunctionSeq
  <1>4. ASSUME NEW field, NEW v
        PROVE  Edge(doc, field, v, strips) \in Seq(ToSet(Edge(doc, field, v, strips)))
    <2> HIDE DEF doc
    <2>1. \/ Edge(doc, field, v, strips) = <<>>
          \/ Edge(doc, field, v, strips) = <<[box |-> field, rank |-> v]>>
      BY DEF Edge
    <2> DEFINE e == [box |-> field, rank |-> v]
    <2>2. <<>> \in Seq(ToSet(<<>>)) /\ <<e>> \in Seq(ToSet(<<e>>))
      <3>1. ToSet(<<e>>) = {e}
        BY ShortSeqFacts, SMTT(40)
      <3> HIDE DEF e
      <3> QED  BY <3>1
    <2> QED  BY <2>1, <2>2
  <1>5. head \in Seq(ToSet(head)) /\ foot \in Seq(ToSet(foot))
    BY <1>4
  <1> HIDE DEF head, foot, content, doc
  <1>6. head \in Seq(X) /\ foot \in Seq(X)
    BY <1>5
  <1> HIDE DEF X
  <1>7. L \in Seq(X)
    BY <1>3, <1>6, ConcatAt
  <1>8. Labels(page, strips) = L
    BY DEF Labels, LabelsFromDoc, L, content, head, foot, ranks, doc
  <1> HIDE DEF L
  <1>9. ToSet(L) \subseteq LabelRange
    BY <1>8 DEF LabelRange
  <1>10. \A i \in 1 .. Len(L) : L[i] \in LabelRange
    BY <1>7, <1>9 DEF ToSet
  <1>11. L \in [1 .. Len(L) -> LabelRange] /\ Len(L) \in Nat
    BY <1>7, <1>10
  <1> QED  BY <1>8, <1>11, FunctionSeq

(* The stems of a source, and the pages of a manifest: each once.             *)
LEMMA StemsFacts ==
  ASSUME NEW s \in Sources
  PROVE  StemsOf(s) \in Seq(Nat) /\ IsInjective(StemsOf(s))
  <1> DEFINE K == IF Specs[s].policy = "native"
                  THEN {e[1] : e \in ToSet(Specs[s].listed)} ELSE DOMAIN Docs[s]
  <1>1. IsFiniteSet(K) /\ K \subseteq Nat \ {0}
    <2>1. CASE Specs[s].policy = "native"
      <3> DEFINE q == Specs[s].listed
                 f == [e \in ToSet(q) |-> e[1]]
      <3>1. q \in Seq(ToSet(q)) /\ \A e \in ToSet(q) : e[1] \in Nat \ {0}
        BY <2>1, LayoutAssumption DEF Sources
      <3>2. K = {e[1] : e \in ToSet(q)}
        BY <2>1
      <3> HIDE DEF q, K
      <3>3. IsFiniteSet(ToSet(q))
        <4>1. Len(q) \in Nat /\ DOMAIN q = 1 .. Len(q)
          BY <3>1
        <4>2. IsFiniteSet(1 .. Len(q))
          BY <4>1, PlacesOfList
        <4>3. ToSet(q) = {q[i] : i \in 1 .. Len(q)}
          BY <4>1 DEF ToSet
        <4> QED  BY <4>2, <4>3, ImageFinite
      <3>4. IsFiniteSet({f[e] : e \in ToSet(q)})
        <4> HIDE DEF f
        <4> QED  BY <3>3, ImageFinite
      <3>5. K = {f[e] : e \in ToSet(q)}
        BY <3>2
      <3> QED  BY <3>1, <3>2, <3>4, <3>5
    <2>2. CASE Specs[s].policy # "native"
      BY <2>2, LayoutAssumption DEF Sources
    <2> QED  BY <2>1, <2>2
  <1>2. StemsOf(s) = InOrder(K)
    BY DEF StemsOf
  <1> HIDE DEF K
  <1>3. InOrder(K) \in Seq(K) /\ IsInjective(InOrder(K))
    BY <1>1, InOrderFacts
  <1> DEFINE q == InOrder(K)
  <1> HIDE DEF q
  <1>4. q \in Seq(Nat)
    <2>1. q \in Seq(K)
      BY <1>3 DEF q
    <2>2. Len(q) \in Nat /\ q \in [1 .. Len(q) -> K]
      BY <2>1
    <2>3. q \in [1 .. Len(q) -> Nat]
      BY <1>1, <2>2
    <2> QED  BY <2>2, <2>3, FunctionSeq
  <1> QED  BY <1>2, <1>3, <1>4 DEF q

(* splits.py: a manifest lists pages of its split, each once.                 *)
LEMMA ManifestFacts ==
  ASSUME NEW split
  PROVE  ManifestOf(split) \in Seq(PageSet) /\ IsInjective(ManifestOf(split))
  <1> DEFINE pages(s) == [i \in DOMAIN StemsOf(s) |-> Page(s, StemsOf(s)[i])]
             K(s) == {i \in DOMAIN pages(s) : SplitOfStem(s, StemsOf(s)[i]) = split}
             of(s) == PickAt(pages(s), K(s))
             seqs == [s \in Sources |-> of(s)]
  <1>1. ASSUME NEW s \in Sources
        PROVE  /\ of(s) \in Seq(PageSet) /\ IsInjective(of(s))
               /\ \A i \in DOMAIN of(s) : of(s)[i].source = s
    <2> DEFINE q == StemsOf(s)
               g == pages(s)
               L == K(s)
               n == Len(q)
    <2>1. q \in Seq(Nat) /\ IsInjective(q)
      BY StemsFacts
    <2>2. DOMAIN q = 1 .. n /\ n \in Nat /\ \A i \in 1 .. n : q[i] \in Nat
      BY <2>1
    <2>3. /\ DOMAIN g = 1 .. n
          /\ \A i \in 1 .. n : g[i] = Page(s, q[i])
      <3> HIDE DEF q, n
      <3>1. g = [i \in 1 .. n |-> Page(s, q[i])]
        BY <2>2 DEF q
      <3> HIDE DEF g
      <3> QED  BY <3>1
    <2> HIDE DEF q, g, n
    <2>4. \A i \in 1 .. n : g[i] \in PageSet /\ g[i].source = s /\ g[i].stem = q[i]
      BY <2>2, <2>3 DEF PageSet, Page
    <2>5. g \in Seq(PageSet) /\ Len(g) = n
      <3>1. g = [i \in 1 .. n |-> Page(s, q[i])]
        BY <2>2 DEF q, g
      <3>2. g \in [1 .. n -> PageSet]
        BY <2>2, <3>1 DEF PageSet, Page
      <3> QED  BY <2>2, <3>2, FunctionSeq
    <2>6. L \in SUBSET (1 .. Len(g))
      <3>1. L \subseteq DOMAIN g
        BY DEF g
      <3> HIDE DEF L
      <3> QED  BY <2>3, <2>5, <3>1
    <2>7. \A i, j \in L : g[i] = g[j] => i = j
      <3> HIDE DEF L
      <3> TAKE i, j \in L
      <3>1. i \in 1 .. n /\ j \in 1 .. n
        BY <2>5, <2>6
      <3> QED  BY <2>1, <2>2, <2>4, <3>1 DEF IsInjective
    <2> HIDE DEF L
    <2> DEFINE p == PickAt(g, L)
    <2>8. /\ p \in Seq(PageSet) /\ IsInjective(p) /\ ToSet(p) = {g[k] : k \in L}
      BY <2>5, <2>6, <2>7, PickAtFacts, PickInjective, PickedSet
    <2> HIDE DEF p
    <2>9. \A i \in DOMAIN p : p[i].source = s
      <3> TAKE i \in DOMAIN p
      <3>1. p[i] \in {g[k] : k \in L}
        BY <2>8 DEF ToSet
      <3>2. PICK k \in L : p[i] = g[k]
        BY <3>1
      <3>3. k \in 1 .. n
        BY <2>5, <2>6
      <3> QED  BY <2>4, <3>2, <3>3
    <2> QED  BY <2>8, <2>9 DEF p, g, L
  <1> HIDE DEF of
  <1>2. seqs \in Seq(Seq(PageSet)) /\ DOMAIN seqs = Sources /\ Sources = 1 .. Len(Specs)
        /\ Len(seqs) = Len(Specs) /\ \A s \in Sources : seqs[s] = of(s)
    <2>1. Sources = 1 .. Len(Specs) /\ Len(Specs) \in Nat
      BY LayoutAssumption DEF Sources
    <2>2. seqs \in [1 .. Len(Specs) -> Seq(PageSet)]
      BY <1>1, <2>1
    <2> HIDE DEF seqs
    <2>3. seqs \in Seq(Seq(PageSet)) /\ Len(seqs) = Len(Specs)
      BY <2>1, <2>2, FunctionSeq
    <2> QED  BY <2>1, <2>2, <2>3 DEF seqs
  <1>3. ManifestOf(split) = FlattenSeq(seqs)
    BY DEF ManifestOf, of
  <1> HIDE DEF seqs
  <1> DEFINE F == FlattenSeq(seqs)
  <1>4. F \in Seq(PageSet)
    BY <1>2, FlattenFacts
  <1>5. PICK start \in [1 .. Len(seqs) + 1 -> Nat] :
          /\ \A k \in 1 .. Len(seqs) : \A x \in 1 .. Len(seqs[k]) : F[start[k] + x] = seqs[k][x]
          /\ \A i \in 1 .. Len(F) : \E k \in 1 .. Len(seqs) : i - start[k] \in 1 .. Len(seqs[k])
    <2>1. seqs \in Seq(Seq(PageSet))
      BY <1>2
    <2> QED  BY ONLY <2>1, FlattenPlaces DEF F
  <1> HIDE DEF F
  <1>6. ASSUME NEW i \in 1 .. Len(F)
        PROVE  \E s \in Sources : \E x \in DOMAIN of(s) :
                  i = start[s] + x /\ F[i] = of(s)[x] /\ start[s] \in Nat
    <2>1. PICK s \in 1 .. Len(seqs) : i - start[s] \in 1 .. Len(seqs[s])
      BY <1>5
    <2>2. start[s] \in Nat /\ s \in Sources /\ seqs[s] = of(s) /\ of(s) \in Seq(PageSet)
      <3>1. Len(seqs) \in Nat
        BY <1>2
      <3>2. s \in 1 .. Len(seqs) + 1 /\ s \in Sources
        BY <1>2, <3>1
      <3> QED  BY <1>1, <1>2, <3>2
    <2> DEFINE x == i - start[s]
    <2>3. i = start[s] + x
      BY <2>2
    <2>4. x \in 1 .. Len(of(s)) /\ DOMAIN of(s) = 1 .. Len(of(s))
      BY <2>1, <2>2
    <2> HIDE DEF x
    <2>5. F[start[s] + x] = of(s)[x]
      BY <1>5, <2>2, <2>4
    <2> QED  BY <2>2, <2>3, <2>4, <2>5
  <1>7. ASSUME NEW i \in 1 .. Len(F), NEW j \in 1 .. Len(F), F[i] = F[j] PROVE i = j
    <2>1. PICK s \in Sources : \E x \in DOMAIN of(s) : i = start[s] + x /\ F[i] = of(s)[x]
      BY <1>6
    <2>2. PICK x \in DOMAIN of(s) : i = start[s] + x /\ F[i] = of(s)[x]
      BY <2>1
    <2>3. PICK u \in Sources : \E y \in DOMAIN of(u) : j = start[u] + y /\ F[j] = of(u)[y]
      BY <1>6
    <2>4. PICK y \in DOMAIN of(u) : j = start[u] + y /\ F[j] = of(u)[y]
      BY <2>3
    <2>5. s = u
      BY <1>1, <1>7, <2>2, <2>4
    <2>6. x = y
      BY <1>1, <1>7, <2>2, <2>4, <2>5 DEF IsInjective
    <2> QED  BY <2>2, <2>4, <2>5, <2>6
  <1>8. DOMAIN F = 1 .. Len(F)
    BY <1>4
  <1> QED  BY <1>3, <1>4, <1>7, <1>8 DEF IsInjective, F

(* What the packed cache holds: for each entry of the index the page it names,*)
(* with its bytes in its shard and its labels in the flat list; and it has    *)
(* another page for each.                                                     *)
ByteRange == Paper \X Nat
Entry == [stem : Nat, source : Sources, shard : Nat, offset : Nat, length : Nat]
PageAt(i) == Page(meta[i].source, meta[i].stem)
BytesCached(i) ==
    /\ meta[i].shard \in 1 .. Len(blobs) /\ meta[i].length = Bytes[meta[i].stem]
    /\ meta[i].offset + meta[i].length <= Len(blobs[meta[i].shard])
    /\ \A x \in 1 .. meta[i].length : blobs[meta[i].shard][meta[i].offset + x] = <<PageAt(i), x>>
LabelsCached(i) ==
    LET of == Labels(PageAt(i), mix.strips)
    IN  /\ boxOff[i + 1] = boxOff[i] + Len(of) /\ boxOff[i + 1] <= Len(flat)
        /\ \A x \in 1 .. Len(of) : flat[boxOff[i] + x] = of[x]
CacheTypes ==
    /\ blobs \in Seq(Seq(ByteRange)) /\ Len(blobs) # 0
    /\ meta \in Seq(Entry) /\ flat \in Seq(LabelRange)
    /\ boxOff \in Seq(Nat) /\ Len(boxOff) = Len(meta) + 1 /\ boxOff[Len(meta) + 1] = Len(flat)
PagesCached ==
    /\ unpacked \in Seq(PageSet) /\ IsInjective(unpacked)
    /\ ToSet(unpacked) \subseteq ToSet(manifests["train"])
    /\ \A i \in 1 .. Len(meta) : /\ PageAt(i) \in Paper /\ PageAt(i) \in ToSet(manifests["train"])
                                 /\ PageAt(i) \notin ToSet(unpacked)
    /\ \A i, j \in 1 .. Len(meta) : PageAt(i) = PageAt(j) => i = j
CacheInv ==
    /\ mix \in Mixes
    /\ stage \in {"scans", "packing", "packed", "passing", "passed"}
    /\ stage # "scans" => /\ CacheTypes /\ PagesCached
                          /\ \A i \in 1 .. Len(meta) : BytesCached(i) /\ LabelsCached(i)

(* Before the first page there is an empty shard and no index.                *)
LEMMA CacheBegins ==
  ASSUME CacheInv, BuildManifests
  PROVE  CacheInv'
  <1> DEFINE m == ManifestOf("train")
             K == {i \in DOMAIN m : mix.only = {} \/ m[i].source \in mix.only}
  <1>1. m \in Seq(PageSet) /\ IsInjective(m) /\ DOMAIN m = 1 .. Len(m)
    BY ManifestFacts
  <1>2. /\ manifests'["train"] = m /\ unpacked' = PickAt(m, K)
        /\ blobs' = << <<>> >> /\ meta' = <<>> /\ flat' = <<>> /\ boxOff' = <<0>>
        /\ mix' = mix /\ stage' = "packing"
    BY DEF BuildManifests, SPLITS
  <1> HIDE DEF m
  <1>3. K \in SUBSET (1 .. Len(m)) /\ \A i, j \in K : m[i] = m[j] => i = j
    BY <1>1 DEF IsInjective
  <1> HIDE DEF K
  <1> DEFINE p == PickAt(m, K)
  <1>4. p \in Seq(PageSet) /\ IsInjective(p) /\ ToSet(p) = {m[k] : k \in K}
    BY <1>1, <1>3, PickAtFacts, PickInjective, PickedSet
  <1>5. ToSet(p) \subseteq ToSet(m)
    <2>1. \A k \in K : k \in DOMAIN m
      BY <1>1, <1>3
    <2> QED  BY <1>4, <2>1 DEF ToSet
  <1> HIDE DEF p
  <1>6. Len(meta') = 0 /\ Len(blobs') = 1 /\ Len(boxOff') = 1 /\ Len(flat') = 0 /\ boxOff'[1] = 0
    BY <1>2
  <1>7. CacheTypes'
    <2>1. blobs' \in Seq(Seq(ByteRange)) /\ meta' \in Seq(Entry) /\ flat' \in Seq(LabelRange)
          /\ boxOff' \in Seq(Nat)
      <3>1. <<>> \in Seq(ByteRange)
        OBVIOUS
      <3> QED  BY <1>2, <3>1
    <2> QED  BY <1>6, <2>1 DEF CacheTypes
  <1>8. PagesCached'
    BY <1>2, <1>4, <1>5, <1>6 DEF PagesCached, p
  <1> QED  BY <1>2, <1>6, <1>7, <1>8 DEF CacheInv

(* The shards that a payload is written to: as before, but for an empty one   *)
(* behind them.                                                               *)
LEMMA RolledFacts ==
  ASSUME CacheTypes, NEW size
  PROVE  /\ Rolled(size) \in Seq(Seq(ByteRange))
         /\ Len(Rolled(size)) \in Nat \ {0} /\ Len(blobs) <= Len(Rolled(size))
         /\ \A j \in 1 .. Len(blobs) : Rolled(size)[j] = blobs[j]
  <1>1. blobs \in Seq(Seq(ByteRange)) /\ Len(blobs) \in Nat \ {0}
    BY DEF CacheTypes
  <1> DEFINE S == Seq(ByteRange)
  <1>2. <<>> \in S
    OBVIOUS
  <1> HIDE DEF S
  <1>3. /\ Append(blobs, <<>>) \in Seq(S) /\ Len(Append(blobs, <<>>)) = Len(blobs) + 1
        /\ \A j \in 1 .. Len(blobs) : Append(blobs, <<>>)[j] = blobs[j]
    BY <1>1, <1>2, AppendProperties DEF S
  <1>4. Rolled(size) = blobs \/ Rolled(size) = Append(blobs, <<>>)
    BY DEF Rolled
  <1> DEFINE q == Append(blobs, <<>>)
             r == Rolled(size)
  <1>5. q \in Seq(Seq(ByteRange))
    BY <1>3 DEF S
  <1> HIDE DEF q, r
  <1>6. CASE r = blobs
    BY <1>1, <1>6 DEF r
  <1>7. CASE r = q
    <2>1. Len(q) \in Nat \ {0} /\ Len(blobs) <= Len(q) /\ \A j \in 1 .. Len(blobs) : q[j] = blobs[j]
      BY <1>1, <1>3 DEF q
    <2> QED  BY <1>5, <1>7, <2>1 DEF r
  <1> QED  BY <1>4, <1>6, <1>7 DEF q, r

(* A page that is skipped leaves the cache as it was.                         *)
LEMMA SkipPage ==
  ASSUME CacheInv, PackPage, ~Usable(Head(unpacked))
  PROVE  CacheInv'
  <1>1. /\ stage = "packing" /\ unpacked # <<>> /\ unpacked' = Tail(unpacked)
        /\ UNCHANGED <<boxOff, blobs, meta, flat, mix, stage, manifests>>
    BY DEF PackPage, AfterSkip
  <1>2. CacheTypes /\ PagesCached /\ \A i \in 1 .. Len(meta) : BytesCached(i) /\ LabelsCached(i)
    BY <1>1 DEF CacheInv
  <1>3. unpacked' \in Seq(PageSet) /\ IsInjective(unpacked') /\ ToSet(unpacked') \subseteq ToSet(unpacked)
    <2>1. unpacked \in Seq(PageSet) /\ IsInjective(unpacked) /\ unpacked # <<>>
      BY <1>1, <1>2 DEF PagesCached
    <2> QED  BY <1>1, <2>1, HeadTailFacts
  <1>4. PagesCached'
    BY <1>1, <1>2, <1>3 DEF PagesCached, PageAt
  <1>5. CacheTypes'
    BY <1>1, <1>2 DEF CacheTypes
  <1>6. \A i \in 1 .. Len(meta') : BytesCached(i)' /\ LabelsCached(i)'
    BY <1>1, <1>2 DEF BytesCached, LabelsCached, PageAt
  <1> QED  BY <1>1, <1>4, <1>5, <1>6 DEF CacheInv

(* A page that is packed goes behind what is there, and disturbs none of it.  *)
LEMMA CachePage ==
  ASSUME CacheInv, PackPage, Usable(Head(unpacked))
  PROVE  CacheInv'
  <1> DEFINE page == Head(unpacked)
             size == Bytes[page.stem]
             shards == Rolled(size)
             k == Len(shards)
             old == shards[k]
             of == Labels(page, mix.strips)
             entry == [stem |-> page.stem, source |-> page.source, shard |-> k,
                       offset |-> Len(old), length |-> size]
  <1>0. PICK n \in Nat : n = Len(meta)
    <2>1. stage = "packing"
      BY DEF PackPage
    <2>2. meta \in Seq(Entry)
      BY <2>1, SMTT(40) DEF CacheInv, CacheTypes
    <2> QED  BY <2>2
  <1>1. /\ stage = "packing" /\ unpacked # <<>> /\ unpacked' = Tail(unpacked)
        /\ blobs' = [shards EXCEPT ![k] = old \o Payload(page)]
        /\ meta' = Append(meta, entry) /\ flat' = flat \o of
        /\ boxOff' = Append(boxOff, Len(flat')) /\ UNCHANGED <<mix, stage, manifests>>
    BY ZenonT(40) DEF PackPage, Last, Labels
  <1>2. CacheTypes /\ PagesCached /\ \A i \in 1 .. n : BytesCached(i) /\ LabelsCached(i)
    BY <1>0, <1>1 DEF CacheInv
  <1>3. /\ page \in PageSet /\ unpacked' \in Seq(PageSet) /\ IsInjective(unpacked')
        /\ ToSet(unpacked) = {page} \cup ToSet(unpacked') /\ page \notin ToSet(unpacked')
    <2>1. unpacked \in Seq(PageSet) /\ IsInjective(unpacked) /\ unpacked # <<>>
      BY <1>1, <1>2 DEF PagesCached
    <2> QED  BY <1>1, <2>1, HeadTailFacts, SMTT(40)
  <1>4. page \in Paper /\ size \in Nat /\ page.source \in Sources /\ page.stem \in Nat
        /\ Page(page.source, page.stem) = page
    BY <1>3, LayoutAssumption DEF Usable, Paper, PageSet, OnPaper, Page, Sources
  <1>5. mix.strips \in BOOLEAN
    BY LayoutAssumption DEF CacheInv
  <1> HIDE DEF page, size
  <1>6. of \in Seq(LabelRange) /\ Len(of) \in Nat
    BY <1>4, <1>5, LabelsFacts
  <1>7. /\ Payload(page) \in Seq(ByteRange) /\ Len(Payload(page)) = size
        /\ \A x \in 1 .. size : Payload(page)[x] = <<page, x>>
    <2>1. Payload(page) = [x \in 1 .. size |-> <<page, x>>]
      BY DEF Payload, size
    <2>2. Payload(page) \in [1 .. size -> ByteRange]
      BY <1>4, <2>1 DEF ByteRange
    <2> QED  BY <1>4, <2>1, <2>2, FunctionSeq
  <1>8. /\ shards \in Seq(Seq(ByteRange)) /\ k \in Nat \ {0} /\ Len(blobs) <= k /\ Len(blobs) \in Nat
        /\ (\A j \in 1 .. Len(blobs) : shards[j] = blobs[j]) /\ old \in Seq(ByteRange) /\ Len(old) \in Nat
    <2>1. /\ shards \in Seq(Seq(ByteRange)) /\ k \in Nat \ {0} /\ Len(blobs) <= k
          /\ \A j \in 1 .. Len(blobs) : shards[j] = blobs[j]
      BY <1>2, RolledFacts
    <2>2. Len(blobs) \in Nat
      BY <1>2 DEF CacheTypes
    <2>3. k \in 1 .. k
      BY <2>1
    <2>4. old \in Seq(ByteRange)
      <3> HIDE DEF shards
      <3> QED  BY <2>1, <2>3
    <2> QED  BY <2>1, <2>2, <2>4
  <1> HIDE DEF shards, of, old
  <1>9. /\ old \o Payload(page) \in Seq(ByteRange)
        /\ Len(old \o Payload(page)) = Len(old) + size
        /\ \A j \in 1 .. Len(old) : (old \o Payload(page))[j] = old[j]
        /\ \A x \in 1 .. size : (old \o Payload(page))[Len(old) + x] = <<page, x>>
    <2> DEFINE pay == Payload(page)
    <2>1. /\ pay \in Seq(ByteRange) /\ Len(pay) = size /\ \A x \in 1 .. size : pay[x] = <<page, x>>
      BY <1>7
    <2> HIDE DEF pay
    <2>2. /\ old \o pay \in Seq(ByteRange) /\ Len(old \o pay) = Len(old) + Len(pay)
          /\ \A j \in 1 .. Len(old) : (old \o pay)[j] = old[j]
          /\ \A x \in 1 .. Len(pay) : (old \o pay)[Len(old) + x] = pay[x]
      <3>1. old \in Seq(ByteRange) /\ pay \in Seq(ByteRange)
        BY <1>8, <2>1
      <3> QED  BY ONLY <3>1, ConcatAt
    <2>3. /\ old \o pay \in Seq(ByteRange) /\ Len(old \o pay) = Len(old) + size
          /\ \A j \in 1 .. Len(old) : (old \o pay)[j] = old[j]
          /\ \A x \in 1 .. size : (old \o pay)[Len(old) + x] = <<page, x>>
      BY <2>1, <2>2
    <2> QED  BY <2>3 DEF pay
  <1> DEFINE new == old \o Payload(page)
  <1>10. /\ blobs' \in Seq(Seq(ByteRange)) /\ Len(blobs') = k /\ blobs'[k] = new
         /\ \A j \in 1 .. k : j # k => blobs'[j] = shards[j]
    <2> HIDE DEF new
    <2>1. DOMAIN shards = 1 .. k /\ k \in DOMAIN shards
      BY <1>8
    <2>2. new \in Seq(ByteRange)
      BY <1>9 DEF new
    <2>3. blobs' = [shards EXCEPT ![k] = new]
      BY <1>1 DEF new
    <2>4. shards \in [1 .. k -> Seq(ByteRange)]
      BY <1>8
    <2> HIDE DEF k
    <2>5. blobs' \in [1 .. k -> Seq(ByteRange)]
      BY <2>2, <2>3, <2>4
    <2>6. k \in Nat
      BY <1>8
    <2> QED  BY <2>1, <2>3, <2>5, <2>6, FunctionSeq
  <1>11. \A j \in 1 .. Len(blobs) :
           /\ j \in 1 .. k /\ Len(blobs[j]) <= Len(blobs'[j])
           /\ \A y \in 1 .. Len(blobs[j]) : blobs'[j][y] = blobs[j][y]
    <2> TAKE j \in 1 .. Len(blobs)
    <2>1. j \in 1 .. k /\ shards[j] = blobs[j]
      BY <1>8
    <2>2. CASE j = k
      <3>1. blobs[j] = old /\ blobs'[j] = new
        BY <1>10, <2>1, <2>2 DEF old
      <3>2. Len(old) <= Len(new)
        BY <1>4, <1>8, <1>9
      <3> QED  BY <1>9, <2>1, <3>1, <3>2
    <2>3. CASE j # k
      <3>1. blobs'[j] = blobs[j]
        BY <1>10, <2>1, <2>3
      <3>2. Len(blobs[j]) \in Nat
        BY <1>2 DEF CacheTypes
      <3> QED  BY <2>1, <3>1, <3>2
    <2> QED  BY <2>2, <2>3
  <1>12. /\ meta \in Seq(Entry) /\ n \in Nat /\ meta' \in Seq(Entry) /\ Len(meta') = n + 1
         /\ meta'[n + 1] = entry /\ \A i \in 1 .. n : meta'[i] = meta[i]
    <2>1. entry \in Entry
      BY <1>4, <1>8 DEF Entry
    <2>2. meta \in Seq(Entry)
      BY <1>2 DEF CacheTypes
    <2> HIDE DEF entry
    <2> QED  BY <1>0, <1>1, <2>1, <2>2, AppendProperties
  <1>13. /\ flat \in Seq(LabelRange) /\ Len(flat) \in Nat
         /\ flat' \in Seq(LabelRange) /\ Len(flat') = Len(flat) + Len(of)
         /\ (\A y \in 1 .. Len(flat) : flat'[y] = flat[y])
         /\ \A y \in 1 .. Len(of) : flat'[Len(flat) + y] = of[y]
    <2>1. flat \in Seq(LabelRange)
      BY <1>2 DEF CacheTypes
    <2> QED  BY <1>1, <1>6, <2>1, ConcatAt
  <1>14. /\ boxOff \in Seq(Nat) /\ Len(boxOff) = n + 1 /\ boxOff[n + 1] = Len(flat)
         /\ boxOff' \in Seq(Nat) /\ Len(boxOff') = n + 2 /\ boxOff'[n + 2] = Len(flat')
         /\ \A i \in 1 .. n + 1 : boxOff'[i] = boxOff[i]
    <2>1. boxOff \in Seq(Nat) /\ Len(boxOff) = n + 1 /\ boxOff[n + 1] = Len(flat)
      BY <1>0, <1>2 DEF CacheTypes
    <2>2. Len(flat') \in Nat /\ (n + 1) + 1 = n + 2
      BY <1>6, <1>12, <1>13
    <2> DEFINE x == Len(flat')
    <2> HIDE DEF x
    <2>3. x \in Nat /\ boxOff' = Append(boxOff, x)
      BY <1>1, <2>2 DEF x
    <2>4. /\ Append(boxOff, x) \in Seq(Nat) /\ Len(Append(boxOff, x)) = Len(boxOff) + 1
          /\ \A i \in 1 .. Len(boxOff) : Append(boxOff, x)[i] = boxOff[i]
          /\ Append(boxOff, x)[Len(boxOff) + 1] = x
      BY <2>1, <2>3, AppendProperties
    <2> QED  BY <2>1, <2>2, <2>3, <2>4 DEF x
  <1> HIDE DEF k
  <1>15. CacheTypes'
    <2>1. (n + 1) + 1 = n + 2
      BY <1>12
    <2> QED  BY <1>8, <1>10, <1>12, <1>13, <1>14, <2>1 DEF CacheTypes
  <1>16. /\ \A i \in 1 .. n : PageAt(i)' = PageAt(i)
         /\ PageAt(n + 1)' = page
    <2>1. entry.stem = page.stem /\ entry.source = page.source
      OBVIOUS
    <2> HIDE DEF entry
    <2> QED  BY <1>4, <1>12, <2>1 DEF PageAt
  <1>17. \A i \in 1 .. n + 1 : i \in 1 .. n \/ i = n + 1
    BY <1>12
  <1>18. PagesCached'
    <2>1. \A i \in 1 .. n : /\ PageAt(i) \in Paper /\ PageAt(i) \in ToSet(manifests["train"])
                            /\ PageAt(i) \notin ToSet(unpacked)
      BY <1>0, <1>2 DEF PagesCached
    <2>2. \A i, j \in 1 .. n : PageAt(i) = PageAt(j) => i = j
      BY <1>0, <1>2 DEF PagesCached
    <2>3. ToSet(unpacked) \subseteq ToSet(manifests["train"])
      BY <1>2 DEF PagesCached
    <2>4. \A i \in 1 .. n + 1 : /\ PageAt(i)' \in Paper /\ PageAt(i)' \in ToSet(manifests["train"])
                                /\ PageAt(i)' \notin ToSet(unpacked')
      BY <1>3, <1>4, <1>16, <1>17, <2>1, <2>3
    <2>5. \A i, j \in 1 .. n + 1 : PageAt(i)' = PageAt(j)' => i = j
      BY <1>3, <1>16, <1>17, <2>1, <2>2
    <2>6. manifests' = manifests /\ Len(meta') = n + 1
      BY <1>1, <1>12
    <2>7. ToSet(unpacked') \subseteq ToSet(manifests'["train"])
      BY <1>3, <2>3, <2>6
    <2> QED  BY <1>3, <2>4, <2>5, <2>6, <2>7 DEF PagesCached
  <1>19. ASSUME NEW i \in 1 .. n PROVE BytesCached(i)' /\ LabelsCached(i)'
    <2>1. BytesCached(i) /\ LabelsCached(i) /\ meta'[i] = meta[i] /\ PageAt(i)' = PageAt(i)
      BY <1>2, <1>12, <1>16
    <2>2. meta[i].offset \in Nat /\ meta[i].length \in Nat /\ meta[i].shard \in Nat
      <3>1. meta[i] \in Entry
        BY <1>0, <1>12
      <3> QED  BY <3>1 DEF Entry
    <2> DEFINE e == meta[i]
               a == e.offset
               l == e.length
               d == e.shard
    <2>3. /\ d \in 1 .. Len(blobs) /\ l = Bytes[e.stem] /\ a + l <= Len(blobs[d])
          /\ \A x \in 1 .. l : blobs[d][a + x] = <<PageAt(i), x>>
      BY <2>1 DEF BytesCached
    <2>4. Len(blobs[d]) \in Nat /\ Len(blobs'[d]) \in Nat /\ Len(blobs[d]) <= Len(blobs'[d])
          /\ d \in 1 .. Len(blobs') /\ \A y \in 1 .. Len(blobs[d]) : blobs'[d][y] = blobs[d][y]
      <3>1. blobs \in Seq(Seq(ByteRange)) /\ d \in 1 .. Len(blobs)
        BY <1>2, <2>3 DEF CacheTypes
      <3>2. d \in 1 .. k /\ Len(blobs') = k
        BY <1>10, <1>11, <3>1
      <3> HIDE DEF d
      <3> QED  BY <1>10, <1>11, <3>1, <3>2, SMTT(40)
    <2>5. a \in Nat /\ l \in Nat /\ meta'[i] = e
      BY <2>1, <2>2
    <2> DEFINE B == blobs[d]
               D == blobs'[d]
    <2> HIDE DEF a, l, B, D
    <2>6. a + l <= Len(D) /\ \A x \in 1 .. l : D[a + x] = <<PageAt(i), x>>
      <3>1. a + l <= Len(B) /\ Len(B) <= Len(D) /\ Len(B) \in Nat /\ Len(D) \in Nat
        BY <2>3, <2>4 DEF B, D
      <3>2. a + l <= Len(D)
        BY <2>5, <3>1
      <3>3. \A x \in 1 .. l : a + x \in 1 .. Len(B)
        BY <2>5, <3>1, SMTT(40)
      <3> QED  BY <2>3, <2>4, <3>2, <3>3 DEF B, D
    <2>7. BytesCached(i)'
      BY <2>1, <2>3, <2>4, <2>5, <2>6 DEF BytesCached, a, l, D
    <2> HIDE DEF e, d
    <2> DEFINE L == Labels(PageAt(i), mix.strips)
               u == boxOff[i]
               v == boxOff[i + 1]
    <2>8. v = u + Len(L) /\ v <= Len(flat) /\ \A x \in 1 .. Len(L) : flat[u + x] = L[x]
      BY <2>1 DEF LabelsCached
    <2>9. /\ boxOff'[i] = u /\ boxOff'[i + 1] = v /\ u \in Nat /\ v \in Nat
          /\ Labels(PageAt(i), mix.strips)' = L
      <3>1. i \in 1 .. n + 1 /\ i + 1 \in 1 .. n + 1
        BY <1>12
      <3>2. Labels(PageAt(i), mix.strips)' = L
        BY <1>1, <2>1
      <3> HIDE DEF L
      <3> QED  BY <1>14, <3>1, <3>2
    <2>10. Len(L) \in Nat
      <3>1. PageAt(i) \in Paper
        BY <1>0, <1>2 DEF PagesCached
      <3>2. L \in Seq(LabelRange)
        BY <1>5, <3>1, LabelsFacts
      <3> HIDE DEF L
      <3> QED  BY <3>2
    <2> HIDE DEF L, u, v
    <2>11. v <= Len(flat') /\ \A x \in 1 .. Len(L) : flat'[u + x] = L[x]
      <3>1. v <= Len(flat')
        BY <1>6, <1>13, <2>8, <2>9
      <3>2. \A x \in 1 .. Len(L) : u + x \in 1 .. Len(flat)
        BY <1>13, <2>8, <2>9, <2>10
      <3> QED  BY <1>13, <2>8, <3>1, <3>2
    <2>12. LabelsCached(i)'
      BY <2>8, <2>9, <2>11 DEF LabelsCached
    <2> QED  BY <2>7, <2>12
  <1>20. BytesCached(n + 1)'
    <2>1. /\ entry.shard = k /\ entry.offset = Len(old) /\ entry.length = size
          /\ entry.stem = page.stem
      OBVIOUS
    <2>2. k \in 1 .. Len(blobs') /\ Len(old) + size <= Len(blobs'[k])
      BY <1>4, <1>8, <1>9, <1>10
    <2>3. \A x \in 1 .. size : blobs'[k][Len(old) + x] = <<page, x>>
      BY <1>9, <1>10
    <2> HIDE DEF entry, new
    <2> QED  BY <1>12, <1>16, <2>1, <2>2, <2>3 DEF BytesCached, size
  <1>21. LabelsCached(n + 1)'
    <2>1. Labels(PageAt(n + 1), mix.strips)' = of
      BY <1>1, <1>16 DEF of
    <2>2. (n + 1) + 1 = n + 2 /\ n + 1 \in 1 .. n + 1
      BY <1>12
    <2>3. boxOff'[n + 1] = Len(flat) /\ boxOff'[n + 2] = Len(flat) + Len(of) /\ boxOff'[n + 2] <= Len(flat')
      BY <1>6, <1>13, <1>14, <2>2
    <2> QED  BY <1>13, <2>1, <2>2, <2>3 DEF LabelsCached
  <1>22. \A i \in 1 .. Len(meta') : BytesCached(i)' /\ LabelsCached(i)'
    BY <1>12, <1>17, <1>19, <1>20, <1>21
  <1>23. mix' = mix /\ stage' = "packing" /\ mix \in Mixes
    BY <1>1 DEF CacheInv
  <1> QED  BY <1>15, <1>18, <1>22, <1>23 DEF CacheInv

(* An item read back by its index is what was annotated of its page.          *)
LEMMA ItemFacts ==
  ASSUME CacheInv, stage # "scans", NEW i \in 1 .. Len(meta)
  PROVE  /\ AsAnnotated(Item(i))
         /\ Item(i).source = meta[i].source /\ Item(i).stem = meta[i].stem
  <1> DEFINE page == PageAt(i)
             e == meta[i]
             a == e.offset
             l == e.length
             d == e.shard
             B == blobs[d]
             jpeg == SubSeq(B, a + 1, a + l)
             of == Labels(page, mix.strips)
             u == boxOff[i]
             n == Len(of)
             piece == SubSeq(flat, u + 1, boxOff[i + 1])
  <1>1. CacheTypes /\ PagesCached /\ BytesCached(i) /\ LabelsCached(i)
    BY DEF CacheInv
  <1>2. meta \in Seq(Entry) /\ e \in Entry
    BY <1>1 DEF CacheTypes
  <1>3. /\ a \in Nat /\ l \in Nat /\ d \in 1 .. Len(blobs) /\ l = Bytes[e.stem] /\ a + l <= Len(B)
        /\ \A x \in 1 .. l : B[a + x] = <<page, x>>
    BY <1>1, <1>2 DEF BytesCached, Entry
  <1>4. B \in Seq(ByteRange)
    <2>1. blobs \in Seq(Seq(ByteRange))
      BY <1>1 DEF CacheTypes
    <2> HIDE DEF d
    <2> QED  BY <1>3, <2>1
  <1>5. page \in Paper /\ page \in ToSet(manifests["train"]) /\ page.stem = e.stem
    BY <1>1 DEF PagesCached, PageAt, Page
  <1>6. jpeg = Payload(page)
    <2> HIDE DEF B, a, l, page
    <2>1. jpeg \in Seq(ByteRange) /\ Len(jpeg) = l /\ \A x \in 1 .. l : jpeg[x] = B[a + x]
      BY <1>3, <1>4, CutAt, SMTT(40)
    <2> HIDE DEF jpeg
    <2>2. jpeg = [x \in 1 .. l |-> jpeg[x]]
      BY <2>1
    <2>3. \A x \in 1 .. l : jpeg[x] = <<page, x>>
      BY <1>3, <2>1
    <2>4. jpeg = [x \in 1 .. l |-> <<page, x>>]
      BY <2>2, <2>3
    <2> QED  BY <1>3, <1>5, <2>4 DEF Payload
  <1>7. of \in Seq(LabelRange) /\ n \in Nat
    <2>1. mix.strips \in BOOLEAN
      BY LayoutAssumption DEF CacheInv
    <2>2. of \in Seq(LabelRange)
      <3> HIDE DEF page
      <3> QED  BY <1>5, <2>1, LabelsFacts
    <2> HIDE DEF of
    <2> QED  BY <2>2
  <1>8. /\ u \in Nat /\ flat \in Seq(LabelRange) /\ boxOff[i + 1] = u + n /\ u + n <= Len(flat)
        /\ \A x \in 1 .. n : flat[u + x] = of[x]
    <2>1. /\ boxOff \in Seq(Nat) /\ Len(boxOff) = Len(meta) + 1 /\ flat \in Seq(LabelRange)
          /\ Len(meta) \in Nat
      BY <1>1 DEF CacheTypes
    <2>2. u \in Nat
      BY <2>1
    <2> QED  BY <1>1, <2>1, <2>2 DEF LabelsCached
  <1>9. piece = of
    <2> HIDE DEF u, n
    <2>0. piece = SubSeq(flat, u + 1, u + n)
      BY <1>8
    <2>1. piece \in Seq(LabelRange) /\ Len(piece) = n /\ \A x \in 1 .. n : piece[x] = flat[u + x]
      BY <1>7, <1>8, <2>0, CutAt
    <2>2. \A x \in 1 .. n : piece[x] = of[x]
      BY <1>8, <2>1
    <2> HIDE DEF piece, of
    <2>3. Len(of) = n
      BY DEF n
    <2> QED  BY <1>7, <2>1, <2>2, <2>3, SeqEqual
  <1>10. /\ Item(i).jpeg = jpeg /\ Item(i).labels = piece
         /\ Item(i).source = e.source /\ Item(i).stem = e.stem
    BY DEF Item
  <1>11. Page(Item(i).source, Item(i).stem) = page
    BY <1>10 DEF PageAt
  <1> HIDE DEF jpeg, piece, of, page
  <1>12. of = LabelsFromDoc(DocOf(page), mix.strips)
    BY DEF of, Labels
  <1> QED  BY <1>5, <1>6, <1>9, <1>10, <1>11, <1>12 DEF AsAnnotated

(* The pools, and what each global batch takes of them.                       *)
LEMMA PoolFacts ==
  ASSUME CacheInv, stage # "scans"
  PROVE  /\ mix.world \in Nat \ {0} /\ Pools \subseteq Sources /\ IsFiniteSet(Pools)
         /\ Sources \subseteq Nat \ {0}
         /\ \A i \in 1 .. Len(meta) : i \in Pool(meta[i].source) /\ meta[i].source \in Pools
         /\ \A s \in Pools : /\ Pool(s) \subseteq 1 .. Len(meta) /\ Cardinality(Pool(s)) \in Nat
                             /\ IsFiniteSet(Pool(s)) /\ PerBatch(s) \in Nat
                             /\ Take(s) = PerBatch(s) * mix.world /\ Take(s) \in Nat
         /\ \A s \in Sampled : s \in Pools /\ Take(s) \in Nat \ {0}
  <1>1. mix.world \in Nat \ {0} /\ mix.batch \in Nat \ {0}
        /\ \A s \in DOMAIN mix.weights : mix.weights[s] \in Nat
    BY LayoutAssumption DEF CacheInv
  <1>2. Sources = 1 .. Len(Specs) /\ Len(Specs) \in Nat /\ Sources \subseteq Nat \ {0}
    <2>1. Specs \in Seq(ToSet(Specs))
      BY LayoutAssumption
    <2>2. Sources = 1 .. Len(Specs) /\ Len(Specs) \in Nat
      BY <2>1 DEF Sources
    <2> QED  BY <2>2
  <1>3. meta \in Seq(Entry) /\ Len(meta) \in Nat /\ DOMAIN meta = 1 .. Len(meta)
        /\ \A i \in 1 .. Len(meta) : meta[i].source \in Sources
    <2>1. meta \in Seq(Entry)
      BY DEF CacheInv, CacheTypes
    <2>2. Len(meta) \in Nat /\ DOMAIN meta = 1 .. Len(meta)
      BY <2>1
    <2>3. \A i \in 1 .. Len(meta) : meta[i] \in Entry
      BY <2>1
    <2>4. \A i \in 1 .. Len(meta) : meta[i].source \in Sources
      BY <2>3 DEF Entry
    <2> QED  BY <2>1, <2>2, <2>4
  <1>4. Pools \subseteq Sources /\ \A i \in 1 .. Len(meta) : i \in Pool(meta[i].source) /\ meta[i].source \in Pools
    BY <1>3 DEF Pools, Pool
  <1>5. IsFiniteSet(Pools)
    <2>1. IsFiniteSet(Sources)
      BY <1>2, PlacesOfList
    <2> QED  BY <1>4, <2>1, FS_Subset
  <1>6. \A s \in Pools : WeightOf[s] \in Nat
    BY <1>1, <1>4 DEF WeightOf
  <1>7. TotalWeight \in Nat \ {0}
    <2> DEFINE w == SumOver(WeightOf, Pools)
    <2>1. w \in Nat
      BY <1>5, <1>6, SumFacts
    <2> HIDE DEF w
    <2>2. {1, w} \subseteq 0 .. w + 1 /\ {1, w} # {} /\ w + 1 \in Nat
      BY <2>1
    <2>3. Max({1, w}) \in {1, w} /\ \A m \in {1, w} : m <= Max({1, w})
      BY <2>2, ExtremeFacts
    <2>4. Max({1, w}) \in Nat \ {0}
      BY <2>1, <2>3
    <2> QED  BY <2>4 DEF TotalWeight, w
  <1>8. ASSUME NEW s \in Pools
        PROVE  /\ Pool(s) \subseteq 1 .. Len(meta) /\ Cardinality(Pool(s)) \in Nat
               /\ IsFiniteSet(Pool(s)) /\ PerBatch(s) \in Nat
               /\ Take(s) = PerBatch(s) * mix.world /\ Take(s) \in Nat
    <2>1. Pool(s) \subseteq 1 .. Len(meta)
      BY <1>3 DEF Pool
    <2>2. IsFiniteSet(Pool(s)) /\ Cardinality(Pool(s)) \in Nat
      <3>1. IsFiniteSet(1 .. Len(meta))
        BY <1>3, PlacesOfList
      <3> QED  BY <2>1, <3>1, FS_Subset, FS_CardinalityType
    <2>3. mix.batch * WeightOf[s] \in Nat
      BY <1>1, <1>6
    <2>4. Whole(s) \in Nat
      BY <1>7, <2>3, DivFacts DEF Whole
    <2>5. PerBatch(s) \in Nat
      <3>1. PerBatch(s) = Whole(s) \/ PerBatch(s) = Whole(s) + 1 \/ PerBatch(s) = Whole(s) + 0
        BY DEF PerBatch
      <3> QED  BY <2>4, <3>1
    <2>6. Take(s) \in Nat
      BY <1>1, <2>5 DEF Take
    <2> QED  BY <2>1, <2>2, <2>5, <2>6 DEF Take
  <1>9. ASSUME NEW s \in Sampled PROVE s \in Pools /\ Take(s) \in Nat \ {0}
    <2>1. s \in Pools /\ PerBatch(s) \in Nat /\ PerBatch(s) > 0
      BY <1>8 DEF Sampled
    <2> DEFINE p == PerBatch(s)
    <2> HIDE DEF p
    <2>2. p * mix.world \in Nat \ {0}
      BY <1>1, <2>1 DEF p
    <2> QED  BY <2>1, <2>2 DEF Take, p
  <1> QED  BY <1>1, <1>2, <1>4, <1>5, <1>8, <1>9

(* No pool runs out within an epoch.                                          *)
LEMMA LenFacts ==
  ASSUME CacheInv, stage # "scans"
  PROVE  /\ SamplerLen \in Nat
         /\ \A j \in Nat : \A s \in Sampled :
               j < SamplerLen => Take(s) * j + Take(s) <= Cardinality(Pool(s))
  <1> DEFINE full == {Cardinality(Pool(s)) \div Take(s) : s \in Sampled}
  <1>1. \A s \in Sampled : /\ Cardinality(Pool(s)) \in Nat /\ Take(s) \in Nat \ {0}
                           /\ Cardinality(Pool(s)) \div Take(s) \in full
    BY PoolFacts
  <1>2. \A s \in Sampled : /\ Cardinality(Pool(s)) \div Take(s) \in Nat
                           /\ Take(s) * (Cardinality(Pool(s)) \div Take(s)) <= Cardinality(Pool(s))
    BY <1>1, DivFacts
  <1>3. full \subseteq Nat
    BY <1>2
  <1>4. SamplerLen = IF full = {} THEN 0 ELSE Min(full)
    BY DEF SamplerLen
  <1> HIDE DEF full
  <1>5. full # {} => Min(full) \in full /\ \A m \in full : Min(full) <= m
    <2> SUFFICES ASSUME full # {} PROVE Min(full) \in full /\ \A m \in full : Min(full) <= m
      OBVIOUS
    <2>1. \E a \in full : \A m \in full : a <= m
      BY <1>3, LeastNat
    <2> QED  BY <2>1 DEF Min
  <1>6. SamplerLen \in Nat
    BY <1>3, <1>4, <1>5
  <1>7. ASSUME NEW j \in Nat, NEW s \in Sampled, j < SamplerLen
        PROVE  Take(s) * j + Take(s) <= Cardinality(Pool(s))
    <2> DEFINE t == Take(s)
               c == Cardinality(Pool(s))
               q == c \div t
    <2>1. t \in Nat \ {0} /\ c \in Nat /\ q \in Nat /\ t * q <= c /\ q \in full
      BY <1>1, <1>2
    <2>2. SamplerLen <= q
      BY <1>4, <1>5, <2>1
    <2> HIDE DEF t, c, q
    <2>3. j + 1 <= q
      BY <1>6, <1>7, <2>1, <2>2
    <2>4. t * j + t <= t * q
      <3>1. q - (j + 1) \in Nat
        BY <2>1, <2>3
      <3>2. t * (q - (j + 1)) \in Nat
        BY <2>1, <3>1
      <3>3. t * q = t * j + t + t * (q - (j + 1))
        BY <2>1, <3>1
      <3>4. t * j \in Nat /\ t * q \in Nat
        BY <2>1
      <3> DEFINE x == t * (q - (j + 1))
                 y == t * j
                 z == t * q
      <3>5. x \in Nat /\ y \in Nat /\ z = y + t + x /\ t \in Nat
        BY <2>1, <3>2, <3>3, <3>4
      <3> HIDE DEF x, y, z
      <3>6. y + t <= z
        BY ONLY <3>5
      <3> QED  BY <3>6 DEF y, z
    <2>5. t * j \in Nat /\ t * q \in Nat
      BY <2>1
    <2> DEFINE y == t * j
               z == t * q
    <2>6. y \in Nat /\ z \in Nat /\ y + t <= z /\ z <= c /\ t \in Nat /\ c \in Nat
      BY <2>1, <2>4, <2>5
    <2> HIDE DEF y, z
    <2>7. y + t <= c
      BY ONLY <2>6
    <2> QED  BY <2>7 DEF y, t, c
  <1> QED  BY <1>6, <1>7

(* Multiplying keeps the order.                                               *)
LEMMA TimesGrows ==
  ASSUME NEW w \in Nat, NEW a \in Nat, NEW b \in Nat, a <= b
  PROVE  w * a \in Nat /\ w * b \in Nat /\ w * a <= w * b
  <1>1. b - a \in Nat
    OBVIOUS
  <1>2. w * (b - a) \in Nat
    BY <1>1
  <1>3. w * b = w * a + w * (b - a)
    BY <1>1
  <1>4. w * a \in Nat /\ w * b \in Nat
    OBVIOUS
  <1> DEFINE x == w * (b - a)
             y == w * a
             z == w * b
  <1>5. x \in Nat /\ y \in Nat /\ z \in Nat /\ z = y + x
    BY <1>2, <1>3, <1>4
  <1> HIDE DEF x, y, z
  <1>6. y <= z
    BY ONLY <1>5
  <1> QED  BY <1>5, <1>6 DEF y, z

(* Every w-th place of a range.                                               *)
Share(w, r, a, z) == {i \in (a + 1) .. z : (i - 1) % w = r}

(* Every w-th of w * n places that begin after a multiple of w: n of them.    *)
LEMMA ShareCount ==
  ASSUME NEW w \in Nat \ {0}, NEW n \in Nat, NEW b \in Nat, NEW r \in 0 .. w - 1
  PROVE  Cardinality(Share(w, r, w * b, w * b + w * n)) = n
  <1> DEFINE K == {i \in (w * b + 1) .. (w * b + w * n) : (i - 1) % w = r}
             at == [y \in 1 .. n |-> w * (b + y - 1) + (r + 1)]
  <1>0. w * b \in Nat /\ w * n \in Nat
    OBVIOUS
  <1>1. ASSUME NEW y \in 1 .. n PROVE at[y] \in K
    <2>1. b + y - 1 \in Nat /\ b <= b + y - 1 /\ b + y <= b + n /\ b + n \in Nat /\ b + y \in Nat
      OBVIOUS
    <2> DEFINE k == b + y - 1
               i == w * k + (r + 1)
    <2>2. w * b <= w * k /\ w * k \in Nat
      BY <2>1, TimesGrows
    <2>3. w * (b + y) <= w * (b + n) /\ w * (b + y) \in Nat
      BY <2>1, TimesGrows
    <2>4. w * (b + y) = w * k + w /\ w * (b + n) = w * b + w * n
      BY <2>1
    <2>5. (i - 1) % w = r
      <3>1. i - 1 \in Nat
        BY <2>2
      <3> DEFINE q == (i - 1) \div w
                 p == (i - 1) % w
      <3>2. q \in Nat /\ p \in 0 .. w - 1 /\ i - 1 = w * q + p
        BY <3>1, DivFacts
      <3>3. i = w * q + (p + 1) /\ w * q \in Nat
        BY <2>2, <3>2
      <3> HIDE DEF k, q, p
      <3>4. w * k + (r + 1) = w * q + (p + 1) /\ r + 1 \in 1 .. w /\ p + 1 \in 1 .. w /\ k \in Nat /\ q \in Nat
        BY <2>1, <3>2, <3>3 DEF k
      <3>5. k = q /\ r + 1 = p + 1
        BY ONLY <3>4, DivUnique, w \in Nat \ {0}
      <3>6. p = r
        BY <3>2, <3>5
      <3> QED  BY <3>6 DEF p
    <2> DEFINE g == w * k
               h == w * b
               e == w * n
    <2>6. g \in Nat /\ h \in Nat /\ e \in Nat /\ h <= g /\ g + w <= h + e
      BY <1>0, <2>2, <2>3, <2>4
    <2> HIDE DEF g, h, e
    <2>7. g + (r + 1) \in (h + 1) .. (h + e)
      BY ONLY <2>6, w \in Nat, r \in 0 .. w - 1
    <2>8. i \in (w * b + 1) .. (w * b + w * n)
      BY <2>7 DEF g, h, e
    <2>9. at[y] = i
      OBVIOUS
    <2> HIDE DEF i, at
    <2> QED  BY <2>5, <2>8, <2>9
  <1>2. ASSUME NEW y \in 1 .. n, NEW z \in 1 .. n, at[y] = at[z] PROVE y = z
    <2> DEFINE k == b + y - 1
               l == b + z - 1
    <2>1. k \in Nat /\ l \in Nat /\ r + 1 \in 1 .. w /\ w * k + (r + 1) = w * l + (r + 1)
      BY <1>2
    <2> HIDE DEF k, l
    <2>2. k = l
      BY <2>1, DivUnique
    <2> QED  BY <2>2 DEF k, l
  <1>3. ASSUME NEW i \in K PROVE \E y \in 1 .. n : at[y] = i
    <2>1. i - 1 \in Nat /\ i \in Nat
      BY <1>0
    <2> DEFINE q == (i - 1) \div w
    <2>2. q \in Nat /\ (i - 1) % w = r /\ i - 1 = w * q + r /\ w * q \in Nat
      <3>1. (i - 1) % w = r
        OBVIOUS
      <3>2. q \in Nat /\ i - 1 = w * q + ((i - 1) % w)
        BY <2>1, DivFacts
      <3> HIDE DEF q
      <3> QED  BY <3>1, <3>2
    <2>3. w * b + 1 <= i /\ i <= w * b + w * n
      BY <1>0
    <2> HIDE DEF q, K
    <2>4. b <= q
      <3> SUFFICES ASSUME q + 1 <= b PROVE FALSE
        BY <2>2
      <3>1. w * (q + 1) <= w * b /\ w * (q + 1) = w * q + w
        BY <2>2, TimesGrows
      <3> DEFINE g == w * q
                 h == w * b
      <3>2. g \in Nat /\ h \in Nat /\ g + w <= h /\ i - 1 = g + r /\ h + 1 <= i
        BY <1>0, <2>2, <2>3, <3>1
      <3> HIDE DEF g, h
      <3> QED  BY ONLY <3>2, w \in Nat, r \in 0 .. w - 1, <2>1
    <2>5. q + 1 <= b + n
      <3> SUFFICES ASSUME b + n <= q PROVE FALSE
        BY <2>2
      <3>1. w * (b + n) <= w * q /\ w * (b + n) = w * b + w * n
        BY <2>2, TimesGrows
      <3> DEFINE g == w * q
                 h == w * b
                 e == w * n
      <3>2. g \in Nat /\ h \in Nat /\ e \in Nat /\ h + e <= g /\ i - 1 = g + r /\ i <= h + e
        BY <1>0, <2>2, <2>3, <3>1
      <3> HIDE DEF g, h, e
      <3> QED  BY ONLY <3>2, w \in Nat, r \in 0 .. w - 1, <2>1
    <2> DEFINE y == q - b + 1
    <2>6. y \in 1 .. n /\ b + y - 1 = q
      BY <2>2, <2>4, <2>5
    <2> HIDE DEF y
    <2>7. at[y] = w * (b + y - 1) + (r + 1)
      BY <2>6
    <2>8. w * q + (r + 1) = i
      BY <2>1, <2>2
    <2> QED  BY <2>6, <2>7, <2>8
  <1>4. at \in Bijection(1 .. n, K)
    <2>1. at \in [1 .. n -> K]
      BY <1>1
    <2> HIDE DEF at, K
    <2>2. at \in Injection(1 .. n, K)
      BY <1>2, <2>1 DEF Injection, IsInjective
    <2> QED  BY <1>3, <2>1, <2>2 DEF Bijection, Surjection
  <1> HIDE DEF at, K
  <1>5. Cardinality(1 .. n) = Cardinality(K)
    <2>1. IsFiniteSet(1 .. n)
      BY PlacesOfList
    <2> QED  BY <1>4, <2>1, FS_Bijection DEF ExistsBijection
  <1> QED  BY <1>5, PlacesOfList DEF K, Share

(* Lists of multiples of w, joined, begin at multiples of w.                  *)
LEMMA StartsFacts ==
  ASSUME NEW m \in Nat, NEW w \in Nat, NEW n \in [1 .. m -> Nat],
         NEW start \in [1 .. m + 1 -> Nat], start[1] = 0,
         \A k \in 1 .. m : start[k + 1] = start[k] + w * n[k]
  PROVE  \A k \in 1 .. m + 1 : \E b \in Nat : start[k] = w * b
  <1> DEFINE T == {k \in Nat : k + 1 <= m + 1 => \E b \in Nat : start[k + 1] = w * b}
  <1>1. T \subseteq Nat
    OBVIOUS
  <1>2. 0 \in T
    <2>1. start[0 + 1] = w * 0 /\ 0 \in Nat
      OBVIOUS
    <2> QED  BY <2>1
  <1>3. ASSUME NEW k \in T PROVE k + 1 \in T
    <2>1. k \in Nat /\ k + 1 \in Nat
      OBVIOUS
    <2> SUFFICES ASSUME (k + 1) + 1 <= m + 1 PROVE \E b \in Nat : start[(k + 1) + 1] = w * b
      BY <2>1
    <2>2. PICK b \in Nat : start[k + 1] = w * b
      BY <2>1
    <2>3. k + 1 \in 1 .. m
      BY <2>1
    <2> DEFINE c == n[k + 1]
    <2>4. c \in Nat /\ start[(k + 1) + 1] = start[k + 1] + w * c
      BY <2>3
    <2> HIDE DEF c
    <2>5. w * (b + c) = w * b + w * c /\ b + c \in Nat
      BY <2>4
    <2> QED  BY <2>2, <2>4, <2>5
  <1> HIDE DEF T
  <1>4. T = Nat
    BY <1>1, <1>2, <1>3, NatSetInduction
  <1>5. ASSUME NEW k \in 1 .. m + 1 PROVE \E b \in Nat : start[k] = w * b
    <2>1. k - 1 \in T /\ (k - 1) + 1 = k
      BY <1>4
    <2> QED  BY <2>1 DEF T
  <1> QED  BY <1>5

(* rng.permutation has given every pool some order.                           *)
Permuted ==
    \A s \in Pools : /\ shuffled[s] \in Seq(Pool(s)) /\ IsInjective(shuffled[s])
                     /\ Len(shuffled[s]) = Cardinality(Pool(s))

(* What the j-th global batch has of a pool.                                  *)
CutOf(j, s) == SubSeq(shuffled[s], j * Take(s) + 1, (j + 1) * Take(s))

(* It is as long as it should be, and its pages are pages of the pool.        *)
LEMMA CutFacts ==
  ASSUME CacheInv, stage # "scans", Permuted, NEW j \in Nat, j < SamplerLen, NEW s \in Sampled
  PROVE  /\ CutOf(j, s) \in Seq(Pool(s)) /\ Len(CutOf(j, s)) = Take(s)
         /\ \A x \in 1 .. Take(s) : /\ CutOf(j, s)[x] = shuffled[s][Take(s) * j + x]
                                    /\ CutOf(j, s)[x] \in Pool(s)
                                    /\ Take(s) * j + x \in 1 .. Len(shuffled[s])
  <1> DEFINE q == shuffled[s]
             t == Take(s)
             a == t * j
             c == Cardinality(Pool(s))
             piece == SubSeq(q, a + 1, a + t)
  <1>1. s \in Pools /\ t \in Nat \ {0} /\ c \in Nat
    BY PoolFacts
  <1>2. q \in Seq(Pool(s)) /\ Len(q) = c
    BY <1>1 DEF Permuted
  <1>3. a + t <= c
    BY LenFacts
  <1>4. CutOf(j, s) = SubSeq(q, j * t + 1, (j + 1) * t)
    BY DEF CutOf
  <1> HIDE DEF t, q, c
  <1>5. j * t = a /\ (j + 1) * t = a + t /\ a \in Nat
    BY <1>1
  <1>6. CutOf(j, s) = piece
    BY <1>4, <1>5
  <1> HIDE DEF a
  <1>7. q \in Seq(Pool(s)) /\ a \in Nat /\ t \in Nat /\ a + t <= Len(q)
    BY <1>1, <1>2, <1>3, <1>5
  <1>8. /\ piece \in Seq(Pool(s)) /\ Len(piece) = t
        /\ \A x \in 1 .. t : piece[x] = q[a + x]
    BY ONLY <1>7, CutAt
  <1>9. ASSUME NEW x \in 1 .. t PROVE piece[x] \in Pool(s) /\ a + x \in 1 .. Len(q)
    <2>1. a + x \in 1 .. Len(q)
      BY <1>2, <1>1, <1>7
    <2> HIDE DEF piece
    <2>2. piece[x] \in Pool(s)
      BY <1>8
    <2> QED  BY <2>1, <2>2
  <1> QED  BY <1>6, <1>8, <1>9 DEF a, t, q

(* Every rank's share of a global batch: no page twice, from the places of the*)
(* batch, and of each source as many as the batch has for one rank.           *)
LEMMA ShareFacts ==
  ASSUME CacheInv, stage # "scans", Permuted, NEW j \in Nat, j < SamplerLen, NEW r \in Processes
  PROVE  /\ RankBatch(j, r) \in Seq(1 .. Len(meta)) /\ IsInjective(RankBatch(j, r))
         /\ \A i \in 1 .. Len(RankBatch(j, r)) : \E s \in Sampled : \E x \in 1 .. Take(s) :
               RankBatch(j, r)[i] = shuffled[s][Take(s) * j + x]
         /\ \A s \in Pools :
               Cardinality({i \in 1 .. Len(RankBatch(j, r)) : meta[RankBatch(j, r)[i]].source = s})
                  = PerBatch(s)
  <1> DEFINE w == mix.world
             sources == InOrder(Sampled)
             m == Len(sources)
             seqs == [k \in DOMAIN sources |-> CutOf(j, sources[k])]
             F == FlattenSeq(seqs)
             K == {i \in DOMAIN F : (i - 1) % w = r}
             B == PickAt(F, K)
             at == PlaceOf(K)
             c == Cardinality(K)
             M == 1 .. Len(meta)
  <1>1. RankBatch(j, r) = B
    BY DEF RankBatch, RankSlice, CutOf
  <1>2. /\ w \in Nat \ {0} /\ r \in 0 .. w - 1 /\ IsFiniteSet(Sampled) /\ Sampled \subseteq Nat \ {0}
        /\ \A s \in Pools : PerBatch(s) \in Nat /\ Take(s) = PerBatch(s) * w /\ Pool(s) \subseteq M
    <2>1. Sampled \subseteq Pools
      BY DEF Sampled
    <2>2. IsFiniteSet(Pools) /\ Pools \subseteq Nat \ {0} /\ w \in Nat \ {0}
          /\ \A s \in Pools : PerBatch(s) \in Nat /\ Take(s) = PerBatch(s) * w /\ Pool(s) \subseteq M
      BY PoolFacts
    <2> QED  BY <2>1, <2>2, FS_Subset DEF Processes
  <1>3. /\ sources \in Seq(Sampled) /\ m \in Nat /\ DOMAIN sources = 1 .. m
        /\ (\A k \in 1 .. m : sources[k] \in Sampled /\ sources[k] \in Pools)
        /\ (\A k, l \in 1 .. m : sources[k] = sources[l] => k = l)
        /\ \A s \in Sampled : \E k \in 1 .. m : sources[k] = s
    <2>1. sources \in Seq(Sampled) /\ ToSet(sources) = Sampled /\ IsInjective(sources)
      BY <1>2, InOrderFacts
    <2> HIDE DEF sources
    <2>2. m \in Nat /\ DOMAIN sources = 1 .. m /\ \A k \in 1 .. m : sources[k] \in Sampled
      BY <2>1
    <2> QED  BY <2>1, <2>2 DEF IsInjective, ToSet, Sampled
  <1> HIDE DEF sources, M
  <1>4. \A k \in 1 .. m :
           /\ seqs[k] = CutOf(j, sources[k]) /\ seqs[k] \in Seq(M)
           /\ Len(seqs[k]) = Take(sources[k])
           /\ \A x \in 1 .. Take(sources[k]) : 
                 /\ seqs[k][x] = shuffled[sources[k]][Take(sources[k]) * j + x]
                 /\ seqs[k][x] \in Pool(sources[k])
                 /\ Take(sources[k]) * j + x \in 1 .. Len(shuffled[sources[k]])
    <2> TAKE k \in 1 .. m
    <2>1. seqs[k] = CutOf(j, sources[k]) /\ sources[k] \in Sampled /\ sources[k] \in Pools
      BY <1>3
    <2>2. CutOf(j, sources[k]) \in Seq(Pool(sources[k]))
      BY <2>1, CutFacts
    <2>3. Pool(sources[k]) \subseteq M
      BY <1>2, <2>1
    <2>4. CutOf(j, sources[k]) \in Seq(M)
      <3> DEFINE z == CutOf(j, sources[k])
      <3>1. z \in Seq(Pool(sources[k]))
        BY <2>2
      <3> HIDE DEF z
      <3>2. z \in [1 .. Len(z) -> M] /\ Len(z) \in Nat
        BY <2>3, <3>1
      <3>3. z \in Seq(M)
        BY <3>2, FunctionSeq
      <3> QED  BY <3>3 DEF z
    <2> QED  BY <2>1, <2>4, CutFacts
  <1>5. seqs \in Seq(Seq(M)) /\ Len(seqs) = m
    <2>1. seqs \in [1 .. m -> Seq(M)]
      BY <1>3, <1>4
    <2> HIDE DEF seqs
    <2> QED  BY <1>3, <2>1, FunctionSeq
  <1> HIDE DEF seqs, m
  <1>6. F \in Seq(M) /\ Len(F) \in Nat /\ DOMAIN F = 1 .. Len(F)
    <2>1. F \in Seq(M)
      BY <1>5, FlattenFacts
    <2> HIDE DEF F
    <2> QED  BY <2>1
  <1>7. PICK start \in [1 .. m + 1 -> Nat] :
           /\ start[1] = 0
           /\ \A k \in 1 .. m : start[k + 1] = start[k] + Len(seqs[k])
           /\ \A k \in 1 .. m : \A x \in 1 .. Len(seqs[k]) :
                 start[k] + x \in 1 .. Len(F) /\ F[start[k] + x] = seqs[k][x]
           /\ \A i \in 1 .. Len(F) : \E k \in 1 .. m : i - start[k] \in 1 .. Len(seqs[k])
    <2>1. \E start \in [1 .. Len(seqs) + 1 -> Nat] :
             /\ start[1] = 0
             /\ \A k \in 1 .. Len(seqs) : start[k + 1] = start[k] + Len(seqs[k])
             /\ \A k \in 1 .. Len(seqs) : \A x \in 1 .. Len(seqs[k]) :
                   start[k] + x \in 1 .. Len(F) /\ F[start[k] + x] = seqs[k][x]
             /\ \A i \in 1 .. Len(F) : \E k \in 1 .. Len(seqs) : i - start[k] \in 1 .. Len(seqs[k])
      <3>1. seqs \in Seq(Seq(M))
        BY <1>5
      <3>2. PICK start \in [1 .. Len(seqs) + 1 -> Nat] :
             /\ start[1] = 0 /\ start[Len(seqs) + 1] = Len(FlattenSeq(seqs))
             /\ \A k \in 1 .. Len(seqs) : start[k + 1] = start[k] + Len(seqs[k])
             /\ \A k \in 1 .. Len(seqs) : \A x \in 1 .. Len(seqs[k]) :
                   /\ start[k] + x \in 1 .. Len(FlattenSeq(seqs))
                   /\ FlattenSeq(seqs)[start[k] + x] = seqs[k][x]
             /\ \A i \in 1 .. Len(FlattenSeq(seqs)) : \E k \in 1 .. Len(seqs) :
                   i - start[k] \in 1 .. Len(seqs[k])
        BY ONLY <3>1, FlattenPlaces
      <3> QED  BY <3>2
    <2>2. Len(seqs) = m
      BY <1>5
    <2> HIDE DEF F
    <2> QED  BY <2>1, <2>2
  <1> HIDE DEF F
  <1>8. \A k \in 1 .. m : \A x \in 1 .. Take(sources[k]) :
           /\ start[k] + x \in 1 .. Len(F) /\ F[start[k] + x] = seqs[k][x]
           /\ meta[F[start[k] + x]].source = sources[k]
    <2> TAKE k \in 1 .. m
    <2>1. Len(seqs[k]) = Take(sources[k])
      BY <1>4
    <2> TAKE x \in 1 .. Take(sources[k])
    <2>2. start[k] + x \in 1 .. Len(F) /\ F[start[k] + x] = seqs[k][x]
      BY <1>7, <2>1
    <2>3. seqs[k][x] \in Pool(sources[k])
      BY <1>4
    <2> QED  BY <2>2, <2>3 DEF Pool
  <1>9. ASSUME NEW i \in 1 .. Len(F)
        PROVE  \E k \in 1 .. m : \E x \in 1 .. Take(sources[k]) : i = start[k] + x
    <2>1. PICK k \in 1 .. m : i - start[k] \in 1 .. Len(seqs[k])
      BY <1>7
    <2> DEFINE x == i - start[k]
    <2>2. start[k] \in Nat /\ i \in Nat
      <3>1. k \in 1 .. m + 1
        BY <1>3
      <3>2. start[k] \in Nat
        BY <3>1
      <3>3. i \in Nat
        BY <1>6
      <3> QED  BY <3>2, <3>3
    <2>3. i = start[k] + x
      BY <2>2
    <2>4. x \in 1 .. Take(sources[k])
      BY <1>4, <2>1
    <2> QED  BY <2>3, <2>4
  <1>10. ASSUME NEW i \in 1 .. Len(F), NEW h \in 1 .. Len(F), F[i] = F[h] PROVE i = h
    <2>1. PICK k \in 1 .. m : \E x \in 1 .. Take(sources[k]) : i = start[k] + x
      BY <1>9
    <2>2. PICK x \in 1 .. Take(sources[k]) : i = start[k] + x
      BY <2>1
    <2>3. PICK l \in 1 .. m : \E y \in 1 .. Take(sources[l]) : h = start[l] + y
      BY <1>9
    <2>4. PICK y \in 1 .. Take(sources[l]) : h = start[l] + y
      BY <2>3
    <2>5. sources[k] = sources[l] /\ F[i] = seqs[k][x] /\ F[h] = seqs[l][y]
      BY <1>8, <1>10, <2>2, <2>4
    <2>6. k = l
      BY <1>3, <2>5
    <2> DEFINE p == shuffled[sources[k]]
               a == Take(sources[k]) * j
    <2>7. p[a + x] = p[a + y] /\ a + x \in 1 .. Len(p) /\ a + y \in 1 .. Len(p)
      BY <1>4, <1>10, <2>5, <2>6
    <2>8. p \in Seq(Pool(sources[k])) /\ IsInjective(p) /\ a \in Nat
      <3>1. Take(sources[k]) \in Nat
        BY <1>3, PoolFacts
      <3> QED  BY <1>3, <3>1, SMTT(40) DEF Permuted
    <2> HIDE DEF p, a
    <2>9. a + x = a + y
      BY <2>7, <2>8 DEF IsInjective
    <2>10. x = y
      BY <2>8, <2>9
    <2> QED  BY <2>2, <2>4, <2>6, <2>10
  <1>11. K \in SUBSET (1 .. Len(F))
    BY <1>6
  <1>n. /\ \A i \in K : i \in 1 .. Len(F) /\ (i - 1) % w = r
        /\ \A i \in 1 .. Len(F) : (i - 1) % w = r => i \in K
    BY <1>6
  <1> HIDE DEF K, w
  <1>12. /\ c \in Nat /\ B \in Seq(M) /\ Len(B) = c /\ \A a \in 1 .. c : B[a] = F[at[a]]
         /\ \A a \in 1 .. c : at[a] \in K /\ at[a] \in 1 .. Len(F)
    <2>1. /\ c \in Nat /\ B \in Seq(M) /\ Len(B) = c /\ \A a \in 1 .. c : B[a] = F[at[a]]
      BY <1>6, <1>11, PickAtFacts
    <2>2. at \in [1 .. c -> K]
      BY <1>6, <1>11, PlacesFacts
    <2> HIDE DEF at, c
    <2>3. \A a \in 1 .. c : at[a] \in K
      BY <2>2
    <2> QED  BY <1>11, <2>1, <2>3
  <1>13. IsInjective(B)
    <2>1. \A a, b \in K : F[a] = F[b] => a = b
      BY <1>10, <1>11
    <2> QED  BY <1>6, <1>11, <2>1, PickInjective
  <1>14. ASSUME NEW i \in 1 .. c
         PROVE  \E s \in Sampled : \E x \in 1 .. Take(s) : B[i] = shuffled[s][Take(s) * j + x]
    <2>1. PICK k \in 1 .. m : \E x \in 1 .. Take(sources[k]) : at[i] = start[k] + x
      BY <1>9, <1>12
    <2>2. PICK x \in 1 .. Take(sources[k]) : at[i] = start[k] + x
      BY <2>1
    <2>3. B[i] = seqs[k][x]
      BY <1>8, <1>12, <2>2
    <2>4. /\ seqs[k][x] = shuffled[sources[k]][Take(sources[k]) * j + x]
          /\ sources[k] \in Sampled
      BY <1>3, <1>4
    <2> DEFINE s == sources[k]
    <2>5. s \in Sampled /\ x \in 1 .. Take(s) /\ B[i] = shuffled[s][Take(s) * j + x]
      BY <2>2, <2>3, <2>4
    <2> HIDE DEF s, B
    <2> QED  BY <2>5
  <1>15. ASSUME NEW s \in Pools
         PROVE  Cardinality({i \in 1 .. c : meta[B[i]].source = s}) = PerBatch(s)
    <2>1. CASE s \notin Sampled
      <3>1. PerBatch(s) = 0
        BY <1>2, <2>1 DEF Sampled
      <3>2. ASSUME NEW i \in 1 .. c PROVE meta[B[i]].source # s
        <4>1. PICK k \in 1 .. m : \E x \in 1 .. Take(sources[k]) : at[i] = start[k] + x
          BY <1>9, <1>12
        <4>2. meta[B[i]].source = sources[k]
          BY <1>8, <1>12, <4>1
        <4> QED  BY <1>3, <2>1, <4>2
      <3>3. {i \in 1 .. c : meta[B[i]].source = s} = {}
        BY <3>2
      <3> QED  BY <3>1, <3>3, FS_EmptySet
    <2>2. CASE s \in Sampled
      <3>1. PICK k \in 1 .. m : sources[k] = s
        BY <1>3, <2>2
      <3> DEFINE n == PerBatch(s)
                 T == {i \in K : meta[F[i]].source = s}
      <3>2. n \in Nat /\ Take(s) = n * w
        BY <1>2
      <3>3. PICK b \in Nat : start[k] = w * b
        <4> DEFINE per == [l \in 1 .. m |-> PerBatch(sources[l])]
        <4>1. per \in [1 .. m -> Nat]
          BY <1>2, <1>3
        <4>2. ASSUME NEW l \in 1 .. m PROVE start[l + 1] = start[l] + w * per[l]
          <5> DEFINE p == PerBatch(sources[l])
          <5>1. Len(seqs[l]) = p * w /\ p \in Nat /\ per[l] = p
            BY <1>2, <1>3, <1>4
          <5> HIDE DEF p, per
          <5>2. p * w = w * p
            BY <1>2, <5>1
          <5> QED  BY <1>7, <5>1, <5>2
        <4> HIDE DEF per
        <4>3. \A l \in 1 .. m + 1 : \E b \in Nat : start[l] = w * b
          <5>1. /\ m \in Nat /\ w \in Nat /\ start[1] = 0 /\ start \in [1 .. m + 1 -> Nat]
                /\ \A l \in 1 .. m : start[l + 1] = start[l] + w * per[l]
            BY <1>2, <1>3, <1>7, <4>2
          <5> QED  BY ONLY <4>1, <5>1, StartsFacts
        <4>4. k \in 1 .. m + 1
          BY <1>3
        <4> QED  BY <4>3, <4>4
      <3> DEFINE R == {i \in (w * b + 1) .. (w * b + w * n) : (i - 1) % w = r}
      <3> HIDE DEF n
      <3>4. w * b \in Nat /\ w * n \in Nat /\ Take(s) = w * n
        BY <1>2, <3>2
      <3>5. ASSUME NEW i \in T PROVE i \in R
        <4>1. i \in 1 .. Len(F) /\ (i - 1) % w = r /\ meta[F[i]].source = s
          BY <1>n
        <4>2. PICK l \in 1 .. m : \E x \in 1 .. Take(sources[l]) : i = start[l] + x
          BY <1>9, <4>1
        <4>3. PICK x \in 1 .. Take(sources[l]) : i = start[l] + x
          BY <4>2
        <4>4. sources[l] = s
          BY <1>8, <4>1, <4>3
        <4>5. l = k
          BY <1>3, <3>1, <4>4
        <4> DEFINE g == w * b
                   e == w * n
        <4>6. g \in Nat /\ e \in Nat /\ x \in 1 .. e /\ i = g + x
          BY <3>1, <3>3, <3>4, <4>3, <4>5
        <4> HIDE DEF g, e
        <4>7. i \in (g + 1) .. (g + e)
          BY ONLY <4>6
        <4> QED  BY <4>1, <4>7 DEF g, e
      <3>6. ASSUME NEW i \in R PROVE i \in T
        <4> DEFINE g == w * b
                   e == w * n
                   x == i - g
        <4>1. g \in Nat /\ e \in Nat /\ i \in (g + 1) .. (g + e) /\ (i - 1) % w = r
          BY <3>4
        <4> HIDE DEF g, e, R
        <4>2. x \in 1 .. e /\ i = g + x
          BY ONLY <4>1
        <4> HIDE DEF x
        <4>3. g = start[k] /\ e = Take(sources[k])
          BY <3>1, <3>3, <3>4 DEF g, e
        <4>4. start[k] + x \in 1 .. Len(F) /\ meta[F[start[k] + x]].source = s
          BY <1>8, <3>1, <4>2, <4>3
        <4>5. i \in 1 .. Len(F) /\ meta[F[i]].source = s
          BY <4>2, <4>3, <4>4
        <4> QED  BY <1>n, <4>1, <4>5
      <3>7. T = R
        BY <3>5, <3>6
      <3>8. Cardinality(R) = n
        <4>1. w \in Nat \ {0} /\ n \in Nat /\ b \in Nat /\ r \in 0 .. w - 1
          BY <1>2, <3>2
        <4>2. Cardinality(Share(w, r, w * b, w * b + w * n)) = n
          BY ONLY <4>1, ShareCount
        <4> QED  BY <4>2 DEF Share
      <3> HIDE DEF R
      <3>9. {i \in 1 .. c : meta[B[i]].source = s} = {i \in 1 .. c : at[i] \in T}
        BY <1>12
      <3>10. T \in SUBSET K
        OBVIOUS
      <3> HIDE DEF T
      <3>11. Cardinality({i \in 1 .. c : at[i] \in T}) = Cardinality(T)
        BY <1>6, <1>11, <3>10, PickCount
      <3> QED  BY <3>7, <3>8, <3>9, <3>11 DEF n
    <2> QED  BY <2>1, <2>2
  <1> HIDE DEF B
  <1> QED  BY <1>1, <1>12, <1>13, <1>14, <1>15 DEF M

(* What the ranks are given in the step after t steps.                        *)
FedAt(t) ==
    [r \in Processes |-> LET batch == Deal(t, r) IN [i \in DOMAIN batch |-> Item(batch[i])]]

(* An epoch has an order of every pool, and has dealt the batches so far from *)
(* it; no pool runs out.                                                      *)
PassInv ==
    /\ stage \in {"passing", "passed"} =>
           /\ Permuted
           /\ \E n \in Nat : fed = [t \in 1 .. n |-> FedAt(t - 1)] /\ n * mix.world <= SamplerLen
    /\ stage \notin {"passing", "passed"} => fed = <<>>

(* Two global batches have no page in common.                                 *)
LEMMA BatchesApart ==
  ASSUME CacheInv, stage # "scans", Permuted, NEW j \in Nat, NEW k \in Nat,
         j < SamplerLen, k < SamplerLen, NEW s \in Sampled, NEW u \in Sampled
  PROVE  \A x \in 1 .. Take(s), y \in 1 .. Take(u) :
            shuffled[s][Take(s) * j + x] = shuffled[u][Take(u) * k + y] => j = k
  <1> SUFFICES ASSUME NEW x \in 1 .. Take(s), NEW y \in 1 .. Take(u),
                      shuffled[s][Take(s) * j + x] = shuffled[u][Take(u) * k + y]
               PROVE  j = k
    OBVIOUS
  <1>1. /\ CutOf(j, s)[x] = shuffled[s][Take(s) * j + x] /\ CutOf(j, s)[x] \in Pool(s)
        /\ Take(s) * j + x \in 1 .. Len(shuffled[s])
    BY CutFacts
  <1>2. /\ CutOf(k, u)[y] = shuffled[u][Take(u) * k + y] /\ CutOf(k, u)[y] \in Pool(u)
        /\ Take(u) * k + y \in 1 .. Len(shuffled[u])
    BY CutFacts
  <1>3. s = u
    BY <1>1, <1>2 DEF Pool
  <1> DEFINE t == Take(s)
             q == shuffled[s]
             a == t * j + x
             b == t * k + y
  <1>4. q[a] = q[b] /\ a \in 1 .. Len(q) /\ b \in 1 .. Len(q)
    BY <1>1, <1>2, <1>3
  <1>5. q \in Seq(Pool(s)) /\ IsInjective(q) /\ t \in Nat \ {0}
    BY PoolFacts DEF Permuted
  <1>6. a = b
    <2> HIDE DEF a, b, q
    <2> QED  BY <1>4, <1>5 DEF IsInjective
  <1>7. x \in 1 .. t /\ y \in 1 .. t
    BY <1>3
  <1>8. t * j + x = t * k + y
    BY <1>6
  <1> HIDE DEF t
  <1> QED  BY ONLY <1>5, <1>7, <1>8, DivUnique, j \in Nat, k \in Nat

(* Two entries of the index are two pages.                                    *)
LEMMA ItemsApart ==
  ASSUME CacheInv, stage # "scans", NEW a \in 1 .. Len(meta), NEW b \in 1 .. Len(meta),
         Item(a) = Item(b)
  PROVE  a = b
  <1>1. meta[a].source = meta[b].source /\ meta[a].stem = meta[b].stem
    <2>1. /\ Item(a).source = meta[a].source /\ Item(a).stem = meta[a].stem
          /\ Item(b).source = meta[b].source /\ Item(b).stem = meta[b].stem
      BY ItemFacts
    <2> QED  BY <2>1
  <1>2. PageAt(a) = PageAt(b)
    BY <1>1 DEF PageAt
  <1> QED  BY <1>2 DEF CacheInv, PagesCached

(* The batches of an epoch, from the order of its pools.                      *)
LEMMA BatchesFollow ==
  ASSUME CacheInv, PassInv
  PROVE  BatchesAsAnnotated
  <1>1. CASE stage \notin {"passing", "passed"}
    <2>1. DOMAIN fed = {}
      BY <1>1 DEF PassInv
    <2>2. Places = {}
      BY <2>1 DEF Places
    <2> QED  BY <2>1, <2>2 DEF BatchesAsAnnotated
  <1>2. CASE stage \in {"passing", "passed"}
    <2> DEFINE w == mix.world
               J(t, r) == (t - 1) * w + r
               B(t, r) == RankBatch(J(t, r), r)
    <2>1. stage # "scans" /\ Permuted
      BY <1>2 DEF PassInv
    <2>2. PICK n \in Nat : fed = [t \in 1 .. n |-> FedAt(t - 1)] /\ n * w <= SamplerLen
      BY <1>2 DEF PassInv
    <2>3. w \in Nat \ {0} /\ Processes = 0 .. w - 1 /\ SamplerLen \in Nat
      BY <2>1, PoolFacts, LenFacts DEF Processes
    <2>4. DOMAIN fed = 1 .. n
      BY <2>2
    <2>5. ASSUME NEW t \in 1 .. n, NEW r \in Processes
          PROVE  /\ J(t, r) \in Nat /\ J(t, r) < SamplerLen
                 /\ fed[t][r] = [i \in DOMAIN B(t, r) |-> Item(B(t, r)[i])]
      <3>1. t - 1 \in Nat /\ r \in 0 .. w - 1
        BY <2>3
      <3>2. w * t <= w * n /\ w * t \in Nat /\ w * n \in Nat
        BY <2>3, TimesGrows
      <3>3. w * t = (t - 1) * w + w /\ w * n = n * w /\ (t - 1) * w \in Nat
        BY <2>3, <3>1
      <3> DEFINE g == (t - 1) * w
                 h == n * w
                 e == w * t
                 z == SamplerLen
      <3>4. g \in Nat /\ h \in Nat /\ e = g + w /\ e <= h /\ h <= z /\ z \in Nat /\ w \in Nat /\ r \in 0 .. w - 1
        BY <2>2, <2>3, <3>1, <3>2, <3>3
      <3> HIDE DEF g, h, e, z, w
      <3>5. g + r \in Nat /\ g + r < z
        BY ONLY <3>4
      <3>6. J(t, r) \in Nat /\ J(t, r) < SamplerLen
        BY <3>5 DEF g, z, w
      <3>7. fed[t][r] = [i \in DOMAIN B(t, r) |-> Item(B(t, r)[i])]
        BY <2>2 DEF FedAt, Deal, w
      <3> QED  BY <3>6, <3>7
    <2> HIDE DEF w
    <2>6. ASSUME NEW t \in 1 .. n, NEW r \in Processes
          PROVE  /\ B(t, r) \in Seq(1 .. Len(meta)) /\ IsInjective(B(t, r))
                 /\ DOMAIN fed[t][r] = 1 .. Len(B(t, r)) /\ DOMAIN B(t, r) = 1 .. Len(B(t, r))
                 /\ \A i \in 1 .. Len(B(t, r)) : /\ fed[t][r][i] = Item(B(t, r)[i])
                                                 /\ B(t, r)[i] \in 1 .. Len(meta)
      <3>1. J(t, r) \in Nat /\ J(t, r) < SamplerLen
        BY <2>5
      <3> DEFINE j == J(t, r)
                 b == RankBatch(j, r)
      <3> HIDE DEF j
      <3>2. j \in Nat /\ j < SamplerLen
        BY <3>1 DEF j
      <3>3. b \in Seq(1 .. Len(meta)) /\ IsInjective(b)
        BY <2>1, <3>2, ShareFacts
      <3> HIDE DEF b
      <3>4. DOMAIN b = 1 .. Len(b) /\ \A i \in 1 .. Len(b) : b[i] \in 1 .. Len(meta)
        BY <3>3
      <3>5. fed[t][r] = [i \in DOMAIN b |-> Item(b[i])]
        BY <2>5 DEF b, j
      <3> QED  BY <3>3, <3>4, <3>5 DEF b, j
    <2>7. ASSUME NEW t \in 1 .. n, NEW r \in Processes
          PROVE  /\ \A i \in 1 .. Len(B(t, r)) : \E s \in Sampled : \E x \in 1 .. Take(s) :
                       B(t, r)[i] = shuffled[s][Take(s) * J(t, r) + x]
                 /\ \A s \in Pools :
                       Cardinality({i \in 1 .. Len(B(t, r)) : meta[B(t, r)[i]].source = s}) = PerBatch(s)
      <3> DEFINE j == J(t, r)
      <3>1. j \in Nat /\ j < SamplerLen
        BY <2>5
      <3> HIDE DEF j
      <3>2. /\ \A i \in 1 .. Len(RankBatch(j, r)) : \E s \in Sampled : \E x \in 1 .. Take(s) :
                  RankBatch(j, r)[i] = shuffled[s][Take(s) * j + x]
            /\ \A s \in Pools :
                  Cardinality({i \in 1 .. Len(RankBatch(j, r)) : meta[RankBatch(j, r)[i]].source = s})
                     = PerBatch(s)
        BY <2>1, <3>1, ShareFacts
      <3> QED  BY <3>2 DEF j
    <2> HIDE DEF B
    <2>8. ASSUME NEW p \in Places
          PROVE  \E t \in 1 .. n : \E r \in Processes : \E i \in 1 .. Len(B(t, r)) :
                    p = <<t, r, i>> /\ At(p) = Item(B(t, r)[i])
      <3>1. PICK t \in 1 .. n : \E r \in Processes : \E i \in DOMAIN fed[t][r] : p = <<t, r, i>>
        BY <2>4 DEF Places
      <3>2. PICK r \in Processes : \E i \in DOMAIN fed[t][r] : p = <<t, r, i>>
        BY <3>1
      <3>3. PICK i \in DOMAIN fed[t][r] : p = <<t, r, i>>
        BY <3>2
      <3>4. i \in 1 .. Len(B(t, r)) /\ fed[t][r][i] = Item(B(t, r)[i])
        BY <2>6
      <3>5. At(p) = fed[t][r][i]
        BY <3>3 DEF At
      <3> QED  BY <3>3, <3>4, <3>5
    <2>9. ASSUME NEW p \in Places PROVE AsAnnotated(At(p))
      <3>1. PICK t \in 1 .. n : \E r \in Processes : \E i \in 1 .. Len(B(t, r)) :
                    p = <<t, r, i>> /\ At(p) = Item(B(t, r)[i])
        BY <2>8
      <3>2. PICK r \in Processes : \E i \in 1 .. Len(B(t, r)) :
                    p = <<t, r, i>> /\ At(p) = Item(B(t, r)[i])
        BY <3>1
      <3>3. PICK i \in 1 .. Len(B(t, r)) : p = <<t, r, i>> /\ At(p) = Item(B(t, r)[i])
        BY <3>2
      <3> DEFINE a == B(t, r)[i]
      <3>4. a \in 1 .. Len(meta) /\ At(p) = Item(a)
        BY <2>6, <3>3
      <3> HIDE DEF a
      <3>5. AsAnnotated(Item(a))
        BY <2>1, <3>4, ItemFacts
      <3> QED  BY <3>4, <3>5
    <2>10. ASSUME NEW t \in 1 .. n, NEW r \in Processes, NEW s \in Pools
           PROVE  Cardinality({i \in DOMAIN fed[t][r] : fed[t][r][i].source = s}) = PerBatch(s)
      <3>1. \A i \in 1 .. Len(B(t, r)) : fed[t][r][i].source = meta[B(t, r)[i]].source
        <4> TAKE i \in 1 .. Len(B(t, r))
        <4> DEFINE a == B(t, r)[i]
        <4>1. a \in 1 .. Len(meta) /\ fed[t][r][i] = Item(a)
          BY <2>6
        <4> HIDE DEF a
        <4>2. Item(a).source = meta[a].source
          BY <2>1, <4>1, ItemFacts
        <4> QED  BY <4>1, <4>2 DEF a
      <3>2. DOMAIN fed[t][r] = 1 .. Len(B(t, r))
        BY <2>6
      <3>3. {i \in DOMAIN fed[t][r] : fed[t][r][i].source = s}
              = {i \in 1 .. Len(B(t, r)) : meta[B(t, r)[i]].source = s}
        BY <3>1, <3>2
      <3> QED  BY <2>7, <3>3, SMTT(40)
    <2>11. ASSUME NEW p \in Places, NEW q \in Places, At(p) = At(q) PROVE p = q
      <3>1. PICK t \in 1 .. n : \E r \in Processes : \E i \in 1 .. Len(B(t, r)) :
                    p = <<t, r, i>> /\ At(p) = Item(B(t, r)[i])
        BY <2>8
      <3>2. PICK r \in Processes : \E i \in 1 .. Len(B(t, r)) :
                    p = <<t, r, i>> /\ At(p) = Item(B(t, r)[i])
        BY <3>1
      <3>3. PICK i \in 1 .. Len(B(t, r)) : p = <<t, r, i>> /\ At(p) = Item(B(t, r)[i])
        BY <3>2
      <3>4. PICK v \in 1 .. n : \E o \in Processes : \E h \in 1 .. Len(B(v, o)) :
                    q = <<v, o, h>> /\ At(q) = Item(B(v, o)[h])
        BY <2>8
      <3>5. PICK o \in Processes : \E h \in 1 .. Len(B(v, o)) :
                    q = <<v, o, h>> /\ At(q) = Item(B(v, o)[h])
        BY <3>4
      <3>6. PICK h \in 1 .. Len(B(v, o)) : q = <<v, o, h>> /\ At(q) = Item(B(v, o)[h])
        BY <3>5
      <3> DEFINE a == B(t, r)[i]
                 b == B(v, o)[h]
                 j == J(t, r)
                 k == J(v, o)
      <3>7. a \in 1 .. Len(meta) /\ b \in 1 .. Len(meta) /\ Item(a) = Item(b)
        BY <2>6, <2>11, <3>3, <3>6
      <3>8. a = b
        <4> HIDE DEF a, b
        <4> QED  BY <2>1, <3>7, ItemsApart
      <3>9. \E s \in Sampled : \E x \in 1 .. Take(s) : a = shuffled[s][Take(s) * j + x]
        BY <2>7
      <3>10. \E u \in Sampled : \E y \in 1 .. Take(u) : b = shuffled[u][Take(u) * k + y]
        BY <2>7
      <3>11. j \in Nat /\ k \in Nat /\ j < SamplerLen /\ k < SamplerLen
        BY <2>5
      <3>12. j = k
        <4> HIDE DEF a, b, j, k
        <4>1. PICK s \in Sampled : \E x \in 1 .. Take(s) : a = shuffled[s][Take(s) * j + x]
          BY <3>9
        <4>2. PICK x \in 1 .. Take(s) : a = shuffled[s][Take(s) * j + x]
          BY <4>1
        <4>3. PICK u \in Sampled : \E y \in 1 .. Take(u) : b = shuffled[u][Take(u) * k + y]
          BY <3>10
        <4>4. PICK y \in 1 .. Take(u) : b = shuffled[u][Take(u) * k + y]
          BY <4>3
        <4>5. shuffled[s][Take(s) * j + x] = shuffled[u][Take(u) * k + y]
          BY <3>8, <4>2, <4>4
        <4>6. \A xx \in 1 .. Take(s), yy \in 1 .. Take(u) :
                 shuffled[s][Take(s) * j + xx] = shuffled[u][Take(u) * k + yy] => j = k
          BY <2>1, <3>11, BatchesApart
        <4> QED  BY <4>5, <4>6
      <3>13. t = v /\ r = o
        <4>1. t - 1 \in Nat /\ v - 1 \in Nat /\ r + 1 \in 1 .. w /\ o + 1 \in 1 .. w
          BY <2>3
        <4>2. (t - 1) * w + r = (v - 1) * w + o
          BY <3>12
        <4>3. w * (t - 1) + (r + 1) = w * (v - 1) + (o + 1)
          <5>1. (t - 1) * w = w * (t - 1) /\ (v - 1) * w = w * (v - 1)
            BY <2>3, <4>1
          <5>2. w * (t - 1) \in Nat /\ w * (v - 1) \in Nat
            BY <2>3, <4>1
          <5> DEFINE g == w * (t - 1)
                     e == w * (v - 1)
          <5>3. g \in Nat /\ e \in Nat /\ g + r = e + o /\ r \in Int /\ o \in Int
            BY <2>3, <4>2, <5>1, <5>2
          <5> HIDE DEF g, e
          <5>4. g + (r + 1) = e + (o + 1)
            BY ONLY <5>3
          <5> QED  BY <5>4 DEF g, e
        <4> DEFINE tt == t - 1
                   vv == v - 1
                   rr == r + 1
                   oo == o + 1
        <4>4. w \in Nat \ {0} /\ tt \in Nat /\ vv \in Nat /\ rr \in 1 .. w /\ oo \in 1 .. w
              /\ w * tt + rr = w * vv + oo
          BY <2>3, <4>1, <4>3
        <4> HIDE DEF tt, vv, rr, oo
        <4>5. tt = vv /\ rr = oo
          BY ONLY <4>4, DivUnique
        <4> QED  BY <2>3, <4>5 DEF tt, vv, rr, oo
      <3>14. i = h
        <4> DEFINE c == B(t, r)
        <4>1. c[i] = c[h] /\ i \in DOMAIN c /\ h \in DOMAIN c /\ IsInjective(c)
          BY <2>6, <3>8, <3>13
        <4> HIDE DEF c
        <4> QED  BY <4>1 DEF IsInjective
      <3> QED  BY <3>3, <3>6, <3>13, <3>14
    <2> QED  BY <2>4, <2>9, <2>10, <2>11 DEF BatchesAsAnnotated
  <1> QED  BY <1>1, <1>2

(* Training changes nothing of the cache.                                     *)
LEMMA CacheKept ==
  ASSUME CacheInv, stage # "scans", stage' \in {"packing", "packed", "passing", "passed"},
         UNCHANGED <<mix, manifests, unpacked, blobs, meta, flat, boxOff>>
  PROVE  CacheInv'
  <1>1. CacheTypes /\ PagesCached /\ \A i \in 1 .. Len(meta) : BytesCached(i) /\ LabelsCached(i)
    BY DEF CacheInv
  <1>2. \A i : PageAt(i)' = PageAt(i)
    BY DEF PageAt
  <1>3. CacheTypes'
    BY <1>1 DEF CacheTypes
  <1>4. PagesCached'
    BY <1>1, <1>2 DEF PagesCached
  <1>5. ASSUME NEW i \in 1 .. Len(meta') PROVE BytesCached(i)' /\ LabelsCached(i)'
    <2>1. BytesCached(i) /\ LabelsCached(i)
      BY <1>1
    <2>2. BytesCached(i)'
      BY <1>2, <2>1 DEF BytesCached
    <2>3. LabelsCached(i)'
      BY <1>2, <2>1 DEF LabelsCached
    <2> QED  BY <2>2, <2>3
  <1>6. mix' \in Mixes /\ stage' \in {"scans", "packing", "packed", "passing", "passed"}
    BY DEF CacheInv
  <1> QED  BY <1>3, <1>4, <1>5, <1>6 DEF CacheInv

(* Nor of what a sampler makes of it.                                         *)
LEMMA SamplerKept ==
  ASSUME UNCHANGED <<mix, meta>>
  PROVE  /\ Pools' = Pools /\ Sampled' = Sampled /\ Processes' = Processes
         /\ \A s : Pool(s)' = Pool(s) /\ Take(s)' = Take(s)
         /\ SamplerLen' = SamplerLen
  <1>1. Pools' = Pools /\ WeightOf' = WeightOf /\ Processes' = Processes
    BY DEF Pools, WeightOf, Processes
  <1>2. \A s : Pool(s)' = Pool(s)
    BY DEF Pool
  <1>3. TotalWeight' = TotalWeight
    BY <1>1 DEF TotalWeight
  <1>4. \A s : Whole(s)' = Whole(s)
    BY <1>1, <1>3 DEF Whole
  <1>5. \A s : Remainder(s)' = Remainder(s)
    BY <1>1, <1>3 DEF Remainder
  <1>6. ASSUME NEW s PROVE PerBatch(s)' = PerBatch(s)
    <2>1. [r \in Pools |-> Whole(r)]' = [r \in Pools |-> Whole(r)]
      BY <1>1, <1>4
    <2>2. SumOver([r \in Pools |-> Whole(r)], Pools)' = SumOver([r \in Pools |-> Whole(r)], Pools)
      BY <1>1, <2>1
    <2> QED  BY <1>1, <1>4, <1>5, <2>2 DEF PerBatch
  <1>7. \A s : Take(s)' = Take(s)
    BY <1>6 DEF Take
  <1>8. Sampled' = Sampled
    BY <1>1, <1>6 DEF Sampled
  <1>9. SamplerLen' = SamplerLen
    BY <1>2, <1>7, <1>8 DEF SamplerLen
  <1> QED  BY <1>1, <1>2, <1>7, <1>8, <1>9

(* Nor of what was fed.                                                       *)
LEMMA PassKept ==
  ASSUME UNCHANGED <<mix, meta, blobs, flat, boxOff, shuffled>>
  PROVE  \A t : FedAt(t)' = FedAt(t)
  <1>1. /\ Sampled' = Sampled /\ Processes' = Processes /\ \A s : Take(s)' = Take(s)
    BY SamplerKept
  <1>2. \A i : Item(i)' = Item(i)
    BY DEF Item
  <1>3. ASSUME NEW t, NEW r PROVE Deal(t, r)' = Deal(t, r)
    <2> DEFINE sources == InOrder(Sampled)
               j == t * mix.world + r
               of(s) == SubSeq(shuffled[s], j * Take(s) + 1, (j + 1) * Take(s))
    <2>1. sources' = sources /\ j' = j /\ \A s : of(s)' = of(s)
      BY <1>1
    <2>2. [k \in DOMAIN sources |-> of(sources[k])]' = [k \in DOMAIN sources |-> of(sources[k])]
      <3> HIDE DEF sources, of
      <3> QED  BY <2>1
    <2>3. RankSlice(FlattenSeq([k \in DOMAIN sources |-> of(sources[k])]), r)'
            = RankSlice(FlattenSeq([k \in DOMAIN sources |-> of(sources[k])]), r)
      BY <2>2 DEF RankSlice
    <2> QED  BY <2>3 DEF Deal, RankBatch
  <1>4. ASSUME NEW t PROVE FedAt(t)' = FedAt(t)
    BY <1>1, <1>2, <1>3 DEF FedAt
  <1> QED  BY <1>4

(* The inductive invariant of the layout data.                                *)
LayoutInv == CacheInv /\ PassInv

(* Nothing is packed or fed at first.                                         *)
LEMMA LayoutBegins ==
  ASSUME LayoutInit
  PROVE  LayoutInv
  BY DEF LayoutInit, LayoutInv, CacheInv, PassInv

(* Packing feeds nothing.                                                     *)
LEMMA LayoutPacking ==
  ASSUME LayoutInv, BuildManifests \/ PackPage \/ FinishPack
  PROVE  LayoutInv'
  <1>1. CASE BuildManifests
    <2>1. fed' = <<>> /\ stage' = "packing"
      BY <1>1 DEF BuildManifests, LayoutInv, PassInv
    <2> QED  BY <1>1, <2>1, CacheBegins DEF LayoutInv, PassInv
  <1>2. CASE PackPage
    <2>1. fed' = <<>> /\ stage' = "packing"
      BY <1>2 DEF PackPage, LayoutInv, PassInv
    <2> QED  BY <1>2, <2>1, CachePage, SkipPage, SMTT(40) DEF LayoutInv, PassInv
  <1>3. CASE FinishPack
    <2>1. /\ fed' = <<>> /\ stage = "packing" /\ stage' = "packed"
          /\ UNCHANGED <<mix, manifests, unpacked, blobs, meta, flat, boxOff>>
      BY <1>3 DEF FinishPack, LayoutInv, PassInv
    <2>2. CacheInv'
      BY <2>1, CacheKept DEF LayoutInv
    <2> QED  BY <2>1, <2>2 DEF LayoutInv, PassInv
  <1> QED  BY <1>1, <1>2, <1>3

(* An epoch begins with every pool in an order of its own.                    *)
LEMMA LayoutStarts ==
  ASSUME LayoutInv, StartPass
  PROVE  LayoutInv'
  <1>1. /\ stage # "scans" /\ stage' = "passing" /\ fed' = <<>> /\ shuffled' \in Shuffles
        /\ UNCHANGED <<mix, manifests, unpacked, blobs, meta, flat, boxOff>>
    BY DEF StartPass
  <1>2. CacheInv'
    BY <1>1, CacheKept DEF LayoutInv
  <1>3. Pools' = Pools /\ SamplerLen' = SamplerLen /\ \A s : Pool(s)' = Pool(s)
    BY <1>1, SamplerKept
  <1>4. ASSUME NEW s \in Pools
        PROVE  /\ shuffled'[s] \in Seq(Pool(s)) /\ IsInjective(shuffled'[s])
               /\ Len(shuffled'[s]) = Cardinality(Pool(s))
    <2> DEFINE f == shuffled'[s]
               c == Cardinality(Pool(s))
    <2>1. f \in SetToSeqs(Pool(s))
      BY <1>1 DEF Shuffles
    <2>2. c \in Nat
      BY <1>1, PoolFacts DEF LayoutInv
    <2>3. f \in [1 .. c -> Pool(s)] /\ \A i, j \in 1 .. c : i # j => f[i] # f[j]
      BY <2>1 DEF SetToSeqs
    <2> HIDE DEF f, c
    <2>4. f \in Seq(Pool(s)) /\ Len(f) = c /\ DOMAIN f = 1 .. c
      BY <2>2, <2>3, FunctionSeq
    <2>5. IsInjective(f)
      BY <2>3, <2>4 DEF IsInjective
    <2> QED  BY <2>4, <2>5 DEF f, c
  <1>5. Permuted'
    BY <1>3, <1>4 DEF Permuted
  <1>6. \E n \in Nat : fed' = [t \in 1 .. n |-> FedAt(t - 1)'] /\ n * mix'.world <= SamplerLen'
    <2>1. mix.world \in Nat /\ SamplerLen \in Nat
      BY <1>1, PoolFacts, LenFacts DEF LayoutInv
    <2>2. 0 * mix'.world <= SamplerLen'
      BY <1>1, <1>3, <2>1
    <2>3. fed' = [t \in 1 .. 0 |-> FedAt(t - 1)']
      BY <1>1
    <2> QED  BY <2>2, <2>3
  <1> QED  BY <1>1, <1>2, <1>5, <1>6 DEF LayoutInv, PassInv

(* Every step adds what its places say.                                       *)
LEMMA LayoutSteps ==
  ASSUME LayoutInv, LayoutStep
  PROVE  LayoutInv'
  <1>1. /\ stage = "passing" /\ stage' = "passing" /\ StepsLeft
        /\ fed' = Append(fed, FedAt(Len(fed)))
        /\ UNCHANGED <<mix, manifests, unpacked, blobs, meta, flat, boxOff, shuffled>>
    BY DEF LayoutStep, FedAt
  <1>2. CacheInv'
    BY <1>1, CacheKept DEF LayoutInv
  <1>3. /\ Pools' = Pools /\ SamplerLen' = SamplerLen /\ (\A s : Pool(s)' = Pool(s))
        /\ \A t : FedAt(t)' = FedAt(t)
    BY <1>1, SamplerKept, PassKept
  <1>4. Permuted'
    <2>1. Permuted
      BY <1>1 DEF LayoutInv, PassInv
    <2> QED  BY <1>1, <1>3, <2>1 DEF Permuted
  <1>5. PICK n \in Nat : fed = [t \in 1 .. n |-> FedAt(t - 1)]
    BY <1>1 DEF LayoutInv, PassInv
  <1> DEFINE G == {FedAt(t) : t \in Nat}
             e == FedAt(n)
  <1>6. fed \in Seq(G) /\ Len(fed) = n /\ e \in G
    <2>1. fed \in [1 .. n -> G]
      BY <1>5
    <2>2. e \in G
      OBVIOUS
    <2> HIDE DEF G
    <2> QED  BY <2>1, <2>2, FunctionSeq
  <1>7. fed' = [t \in 1 .. n + 1 |-> FedAt(t - 1)]
    <2>1. fed' = Append(fed, e)
      BY <1>1, <1>6
    <2> HIDE DEF G
    <2>2. /\ fed' \in Seq(G) /\ Len(fed') = n + 1 /\ fed'[n + 1] = e
          /\ \A t \in 1 .. n : fed'[t] = fed[t]
      <3> HIDE DEF e
      <3> QED  BY <1>6, <2>1, AppendProperties
    <2>3. DOMAIN fed' = 1 .. n + 1 /\ fed' = [t \in DOMAIN fed' |-> fed'[t]]
      BY <2>2
    <2>4. ASSUME NEW t \in 1 .. n + 1 PROVE fed'[t] = FedAt(t - 1)
      <3>1. CASE t \in 1 .. n
        BY <1>5, <2>2, <3>1
      <3>2. CASE t = n + 1
        <4>1. t - 1 = n
          BY <3>2
        <4> QED  BY <2>2, <3>2, <4>1
      <3> QED  BY <3>1, <3>2
    <2> QED  BY <2>3, <2>4
  <1>8. (n + 1) * mix'.world <= SamplerLen'
    BY <1>1, <1>3, <1>6 DEF StepsLeft
  <1>9. \E k \in Nat : fed' = [t \in 1 .. k |-> FedAt(t - 1)'] /\ k * mix'.world <= SamplerLen'
    <2>1. fed' = [t \in 1 .. n + 1 |-> FedAt(t - 1)']
      BY <1>3, <1>7
    <2>2. n + 1 \in Nat
      OBVIOUS
    <2> QED  BY <1>8, <2>1, <2>2
  <1> QED  BY <1>1, <1>2, <1>4, <1>9 DEF LayoutInv, PassInv

(* An epoch that ends leaves what it fed.                                     *)
LEMMA LayoutRests ==
  ASSUME LayoutInv, EndPass \/ UNCHANGED layoutVars
  PROVE  LayoutInv'
  <1>1. CASE stage \in {"passing", "passed"}
    <2>1. /\ stage # "scans" /\ stage' \in {"passing", "passed"} /\ fed' = fed /\ shuffled' = shuffled
          /\ UNCHANGED <<mix, manifests, unpacked, blobs, meta, flat, boxOff>>
      BY <1>1 DEF EndPass, layoutVars
    <2>2. CacheInv'
      BY <2>1, CacheKept DEF LayoutInv
    <2>3. /\ Pools' = Pools /\ SamplerLen' = SamplerLen /\ (\A s : Pool(s)' = Pool(s))
          /\ \A t : FedAt(t)' = FedAt(t)
      BY <2>1, SamplerKept, PassKept
    <2>4. Permuted /\ \E n \in Nat : fed = [t \in 1 .. n |-> FedAt(t - 1)] /\ n * mix.world <= SamplerLen
      BY <1>1 DEF LayoutInv, PassInv
    <2>5. Permuted'
      BY <2>1, <2>3, <2>4 DEF Permuted
    <2>6. \E n \in Nat : fed' = [t \in 1 .. n |-> FedAt(t - 1)'] /\ n * mix'.world <= SamplerLen'
      <3>1. PICK n \in Nat : fed = [t \in 1 .. n |-> FedAt(t - 1)] /\ n * mix.world <= SamplerLen
        BY <2>4
      <3>2. fed' = [t \in 1 .. n |-> FedAt(t - 1)'] /\ n * mix'.world <= SamplerLen'
        BY <2>1, <2>3, <3>1
      <3> QED  BY <3>2
    <2> QED  BY <2>1, <2>2, <2>5, <2>6 DEF LayoutInv, PassInv
  <1>2. CASE stage \notin {"passing", "passed"}
    <2>1. UNCHANGED layoutVars
      BY <1>2 DEF EndPass
    <2>2. fed' = <<>> /\ stage' = stage
      BY <1>2, <2>1 DEF LayoutInv, PassInv, layoutVars
    <2>3. CacheInv'
      <3>1. CASE stage = "scans"
        BY <2>1, <3>1 DEF LayoutInv, CacheInv, layoutVars
      <3>2. CASE stage # "scans"
        <4>1. /\ stage' \in {"packing", "packed", "passing", "passed"}
              /\ UNCHANGED <<mix, manifests, unpacked, blobs, meta, flat, boxOff>>
          BY <2>1, <3>2 DEF LayoutInv, CacheInv, layoutVars
        <4> QED  BY <3>2, <4>1, CacheKept DEF LayoutInv
      <3> QED  BY <3>1, <3>2
    <2> QED  BY <1>2, <2>2, <2>3 DEF LayoutInv, PassInv
  <1> QED  BY <1>1, <1>2

(* The inductive invariant holds in every state: the cache is as it was packed*)
(* and what is fed is what the pools' order gives.                            *)
THEOREM LayoutInductive == LayoutSpec => []LayoutInv
  <1>1. LayoutInit => LayoutInv
    BY LayoutBegins
  <1>2. LayoutInv /\ [LayoutNext]_layoutVars => LayoutInv'
    BY LayoutPacking, LayoutStarts, LayoutSteps, LayoutRests DEF LayoutNext
  <1> QED  BY <1>1, <1>2, PTL DEF LayoutSpec

(* Every page a rank trains a layout model on is a page of the train split,   *)
(* with its own image bytes and its own labels, whatever was skipped and rolled*)
(* into the next shard; each batch of each rank has the same number of pages of*)
(* a source; no page is trained on twice in an epoch, on any rank: for any    *)
(* annotations, image sizes, weights, batch size and number of processes.     *)
THEOREM LayoutBatches == LayoutSpec => []BatchesAsAnnotated
  <1>1. LayoutInv => BatchesAsAnnotated
    BY BatchesFollow DEF LayoutInv
  <1> QED  BY <1>1, LayoutInductive, PTL
=============================================================================
