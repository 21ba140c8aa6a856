------------------------- MODULE PasswordFile_proofs -------------------------
(***************************************************************************)
(* Proofs about PasswordFile, for every set of processes and of passwords  *)
(* and any number of sessions.                                             *)
(***************************************************************************)
EXTENDS PasswordFile, Integers, SequenceTheorems, TLAPS

(* What a process holds in memory before the call it makes next.           *)
Own(p) ==
    /\ pc[p] \in ReadPcs \cup (SetPcs \ {"new"}) => typed[p] \in Passwords
    /\ pc[p] \in {"sha512", "open_w", "write"} => salt[p] = <<p, session[p]>>
    /\ pc[p] \in {"open_w", "write"} => hash[p] = hash_password(salt[p], typed[p])

OwnInv == \A p \in Procs : Own(p)

(* What it may have allocated by then.                                     *)
Allocated(l) ==
    CASE l \in {"random", "open_r"} -> {"passwd"}
      [] l = "read_salt" -> {"passwd", "file"}
      [] l = "read_hash" -> {"passwd", "salt", "file"}
      [] l = "sha512" -> {"passwd", "salt"}
      [] l = "open_w" -> {"salt", "hash"}
      [] l = "write" -> {"salt", "hash", "file"}
      [] l = "compare" -> {"passwd", "salt", "hash"}
      [] OTHER -> {}

(* The FILEs that are never closed.                                        *)
Leaked == {"urandom", "lost"}

HeapOf(p) == heap[p] \subseteq Allocated(pc[p]) \cup Leaked

HeapInv == \A p \in Procs : HeapOf(p)

(* Which of the two passes over chk_passwd a process is in.                *)
Flow(p) ==
    caller[p] = "unlock" => pc[p] \in {"loop", "ask"} \cup ReadPcs \cup EndPcs

FlowInv == \A p \in Procs : Flow(p)

(* A salt that has not been written yet is nowhere in sight.               *)
Unwritten(q, n) == \/ session[q] < n
                   \/ session[q] = n /\ pc[q] \in {"find"} \cup SetPcs

FreshInv ==
    \A q \in Procs, n \in 1 .. MaxSessions :
        Unwritten(q, n) =>
            /\ file # <<>> => file[1] # <<q, n>>
            /\ \A p \in Procs : pc[p] = "read_hash" => salt[p] # <<q, n>>

(* A hash that was not there when the salt was read is not of that salt.   *)
Torn(p) ==
    pc[p] = "read_hash" /\ buffer[p] = <<>> /\ Len(file) = 2
        => file[2].salt # salt[p]

TornInv == \A p \in Procs : Torn(p)

(* A whole file, nobody else in set_passwd, and so nobody who will be.     *)
Quiet(p) == Len(file) = 2 /\ \A q \in Procs \ {p} : pc[q] \notin SetPcs

Keep(p) ==
    ~late[p] /\ ~misjudged =>
        /\ pc[p] = "read_hash" /\ caller[p] = "confirm" /\ buffer[p] # <<>>
             => Quiet(p) /\ file = <<salt[p], buffer[p][1]>>
        /\ pc[p] = "compare" /\ caller[p] = "confirm" /\ Matches(p)
             => Quiet(p) /\ file = <<salt[p], hash[p]>>
        /\ pc[p] = "lock" \/ Locked(p)
             => Quiet(p) /\ Stored = confirmed[p]

KeepInv == \A p \in Procs : Keep(p)

(* The inductive invariant.                                                *)
IInv == /\ TypeOK /\ OwnInv /\ HeapInv /\ FlowInv /\ FreshInv /\ TornInv
        /\ KeepInv /\ WholeFile

-----------------------------------------------------------------------------
(* The three lengths of a file, and what is in it.                         *)
LEMMA FileFacts ==
    ASSUME NEW f \in Files
    PROVE  \/ f = <<>> /\ Len(f) = 0
           \/ Len(f) = 1 /\ f[1] \in Salts /\ f = <<f[1]>>
           \/ Len(f) = 2 /\ f[1] \in Salts /\ f[2] \in Hashes /\ f = <<f[1], f[2]>>
<1>1. CASE f = <<>>
  BY <1>1
<1>2. CASE f \in {<<s>> : s \in Salts}
  BY <1>2
<1>3. CASE f \in Salts \X Hashes
  BY <1>3
<1> QED
  BY <1>1, <1>2, <1>3 DEF Files

LEMMA FileIntro ==
    /\ <<>> \in Files
    /\ \A s \in Salts : <<s>> \in Files
    /\ \A s \in Salts, h \in Hashes : <<s, h>> \in Files
BY DEF Files

(* What is behind the salt fits into the buffer of the FILE.               *)
LEMMA ReadFacts ==
    ASSUME NEW f \in Files
    PROVE  /\ Piece(f) \in Salts \cup {NoBytes}
           /\ Rest(f) \in Buffers
<1>1. CASE f = <<>>
  BY <1>1 DEF Piece, Rest, Buffers
<1>2. ASSUME NEW x \in Salts, f = <<x>>
      PROVE  Head(f) = x /\ Tail(f) = <<>> /\ f # <<>>
  BY <1>2
<1>3. ASSUME NEW x \in Salts, NEW y \in Hashes, f = <<x, y>>
      PROVE  Head(f) = x /\ Tail(f) = <<y>> /\ f # <<>>
  BY <1>3
<1>4. CASE f # <<>>
  BY <1>2, <1>3, <1>4 DEF Piece, Rest, Buffers, Files
<1> QED
  BY <1>1, <1>4

LEMMA PieceFacts ==
    ASSUME NEW f \in Files
    PROVE  /\ f = <<>> => Piece(f) = NoBytes /\ Rest(f) = <<>>
           /\ f # <<>> => Piece(f) = f[1] /\ Piece(f) \in Salts
           /\ Rest(f) # <<>> => Len(f) = 2 /\ f = <<f[1], Rest(f)[1]>>
           /\ Rest(f) = <<>> => Len(f) # 2
<1>1. CASE f = <<>>
  BY <1>1 DEF Piece, Rest
<1>2. ASSUME NEW x \in Salts, f = <<x>>
      PROVE  Piece(f) = f[1] /\ f[1] = x /\ Rest(f) = <<>> /\ f # <<>> /\ Len(f) = 1
  BY <1>2 DEF Piece, Rest
<1>3. ASSUME NEW x \in Salts, NEW y \in Hashes, f = <<x, y>>
      PROVE  /\ Piece(f) = f[1] /\ f[1] = x /\ Rest(f) = <<y>> /\ f # <<>>
             /\ Len(f) = 2 /\ f = <<f[1], Rest(f)[1]>>
  BY <1>3 DEF Piece, Rest
<1>4. CASE f \in {<<s>> : s \in Salts}
  BY <1>2, <1>4
<1>5. CASE f \in Salts \X Hashes
  <2>1. PICK x \in Salts, y \in Hashes : f = <<x, y>>
    BY <1>5
  <2>2. <<y>> # <<>>
    OBVIOUS
  <2> QED
    BY <1>3, <2>1, <2>2
<1> QED
  BY <1>1, <1>4, <1>5 DEF Files

LEMMA BufferFacts ==
    ASSUME NEW b \in Buffers, b # <<>>
    PROVE  b[1] \in Hashes /\ b = <<b[1]>>
BY DEF Buffers

(* What a write at offset 0 leaves: all that is written, and what was       *)
(* behind it.                                                              *)
LEMMA OverAll ==
    ASSUME NEW T, NEW bytes \in Seq(T), file \in Seq(T), Len(file) <= Len(bytes)
    PROVE  Over(bytes) = bytes
<1>1. SubSeq(file, Len(bytes) + 1, Len(file)) = <<>>
  BY SubSeqEmpty, LenProperties
<1> QED
  BY <1>1, ConcatEmptySeq DEF Over

LEMMA OverSalt ==
    ASSUME NEW T, NEW s \in T, file \in Seq(T), Len(file) = 2
    PROVE  Over(<<s>>) = <<s, file[2]>>
<1> DEFINE rest == SubSeq(file, 2, 2)
<1>1. file[2] \in T
  BY ElementOfSeq
<1>2. \A i \in 2 .. 2 : file[i] \in T
  BY <1>1
<1>3. rest \in Seq(T) /\ Len(rest) = 1 /\ rest[1] = file[2]
  <2>1. \A i, m, n \in Int :
            (\A j \in m .. n : file[j] \in T) /\ m <= n /\ i \in 1 .. n - m + 1
            => /\ SubSeq(file, m, n) \in Seq(T)
               /\ Len(SubSeq(file, m, n)) = n - m + 1
               /\ SubSeq(file, m, n)[i] = file[m + i - 1]
    BY SubSeqProperties
  <2> QED
    BY <1>2, <2>1
<1> HIDE DEF rest
<1>4. <<s>> \in Seq(T) /\ Len(<<s>>) = 1 /\ <<s>>[1] = s
  OBVIOUS
<1>5. /\ <<s>> \o rest \in Seq(T)
      /\ Len(<<s>> \o rest) = 2
      /\ \A i \in 1 .. 2 : (<<s>> \o rest)[i] = IF i <= 1 THEN s ELSE rest[i - 1]
  <2> DEFINE one == <<s>>
  <2>1. one \in Seq(T) /\ Len(one) = 1 /\ one[1] = s
    BY <1>4
  <2> HIDE DEF one
  <2>2. /\ one \o rest \in Seq(T)
        /\ Len(one \o rest) = 2
        /\ \A i \in 1 .. 2 : (one \o rest)[i] = IF i <= 1 THEN one[i] ELSE rest[i - 1]
    <3>1. /\ one \o rest \in Seq(T)
          /\ Len(one \o rest) = Len(one) + Len(rest)
          /\ \A i \in 1 .. Len(one) + Len(rest) :
                (one \o rest)[i] = IF i <= Len(one) THEN one[i]
                                                   ELSE rest[i - Len(one)]
      <4>1. \A S : \A s1, s2 \in Seq(S) :
               /\ s1 \o s2 \in Seq(S)
               /\ Len(s1 \o s2) = Len(s1) + Len(s2)
               /\ \A i \in 1 .. Len(s1) + Len(s2) :
                     (s1 \o s2)[i] = IF i <= Len(s1) THEN s1[i]
                                                    ELSE s2[i - Len(s1)]
        BY ConcatProperties
      <4>2. one \in Seq(T) /\ rest \in Seq(T)
        BY <1>3, <2>1
      <4> QED
        BY <4>1, <4>2, Zenon
    <3>2. Len(one) = 1 /\ Len(one) + Len(rest) = 2
      BY <1>3, <2>1
    <3> QED
      BY <3>1, <3>2
  <2> QED
    BY <2>1, <2>2 DEF one
<1>6. (<<s>> \o rest)[1] = s /\ (<<s>> \o rest)[2] = file[2]
  BY <1>3, <1>5
<1>7. <<s, file[2]>> \in Seq(T) /\ Len(<<s, file[2]>>) = 2
  BY <1>1
<1>8. <<s>> \o rest = <<s, file[2]>>
  <2> DEFINE l == <<s>> \o rest
             r == <<s, file[2]>>
  <2>1. l \in Seq(T) /\ Len(l) = 2 /\ l[1] = s /\ l[2] = file[2]
    BY <1>5, <1>6
  <2>2. r \in Seq(T) /\ Len(r) = 2 /\ r[1] = s /\ r[2] = file[2]
    BY <1>7
  <2> HIDE DEF l, r
  <2>3. l = r
    BY <2>1, <2>2, SeqEqual
  <2> QED
    BY <2>3 DEF l, r
<1> QED
  BY <1>4, <1>8 DEF Over, rest

LEMMA OverFacts ==
    ASSUME file \in Files, NEW s, NEW h
    PROVE  /\ Over(<<s, h>>) = <<s, h>>
           /\ Len(file) # 2 => Over(<<s>>) = <<s>>
           /\ Len(file) = 2 => Over(<<s>>) = <<s, file[2]>>
<1> DEFINE T == Salts \cup Hashes \cup {s, h}
<1>1. file \in Seq(T) /\ Len(file) \in 0 .. 2
  <2>1. CASE file = <<>>
    BY <2>1
  <2>2. ASSUME NEW x \in Salts, file = <<x>>
        PROVE  file \in Seq(T) /\ Len(file) \in 0 .. 2
    BY <2>2
  <2>3. ASSUME NEW x \in Salts, NEW y \in Hashes, file = <<x, y>>
        PROVE  file \in Seq(T) /\ Len(file) \in 0 .. 2
    BY <2>3
  <2> QED
    BY <2>1, <2>2, <2>3 DEF Files
<1>2. s \in T
  OBVIOUS
<1>3. Over(<<s, h>>) = <<s, h>>
  <2> DEFINE both == <<s, h>>
  <2>1. both \in Seq(T) /\ Len(both) = 2
    OBVIOUS
  <2> HIDE DEF T, both
  <2>2. Over(both) = both
    BY <1>1, <2>1, OverAll
  <2> QED
    BY <2>2 DEF both
<1>4. ASSUME Len(file) # 2
      PROVE  Over(<<s>>) = <<s>>
  <2> DEFINE one == <<s>>
  <2>1. one \in Seq(T) /\ Len(one) = 1
    OBVIOUS
  <2> HIDE DEF T, one
  <2>2. Over(one) = one
    BY <1>1, <1>4, <2>1, OverAll
  <2> QED
    BY <2>2 DEF one
<1>5. Len(file) = 2 => Over(<<s>>) = <<s, file[2]>>
  <2> HIDE DEF T
  <2> QED
    BY <1>1, <1>2, OverSalt
<1> QED
  BY <1>3, <1>4, <1>5

(* The labels, in one set.                                                 *)
LEMMA PcsFacts ==
    Pcs = {"find", "recheck", "ask", "lock", "loop", "new", "random", "sha512",
           "open_w", "write", "open_r", "read_salt", "read_hash", "compare",
           "ended", "opened"}
BY DEF Pcs, SetPcs, ReadPcs, EndPcs

(* Allocating and freeing concern the objects of passwd.c and hash.c only. *)
LEMMA HeapTyped ==
    ASSUME heap \in [Procs -> SUBSET Objects],
           NEW p \in Procs,
           Step(p) \/ Crash(p) \/ Restart(p)
    PROVE  heap' \in [Procs -> SUBSET Objects]
<1> USE DEF Malloc, Free, bytesVars, Objects
<1>1. CASE set_passwd(p)
  <2>1. CASE AskNew(p)
    BY <2>1 DEF AskNew
  <2>2. CASE bytes_from_random(p)
    BY <2>2 DEF bytes_from_random
  <2>3. CASE HashNew(p)
    BY <2>3 DEF HashNew
  <2>4. CASE OpenWrite(p)
    BY <2>4 DEF OpenWrite
  <2>5. CASE Write(p)
    BY <2>5 DEF Write
  <2> QED
    BY <1>1, <2>1, <2>2, <2>3, <2>4, <2>5 DEF set_passwd
<1>2. CASE chk_passwd(p)
  <2>1. CASE Ask(p)
    BY <2>1 DEF Ask
  <2>2. CASE OpenRead(p)
    BY <2>2 DEF OpenRead
  <2>3. CASE ReadSalt(p)
    BY <2>3 DEF ReadSalt, Read
  <2>4. CASE ReadHash(p)
    BY <2>4 DEF ReadHash
  <2>5. CASE Compare(p)
    BY <2>5 DEF Compare
  <2> QED
    BY <1>2, <2>1, <2>2, <2>3, <2>4, <2>5 DEF chk_passwd
<1>3. CASE Find(p) \/ Recheck(p) \/ Lock(p) \/ CheckFile(p)
  BY <1>3 DEF Find, Recheck, Lock, CheckFile
<1>4. CASE Crash(p) \/ Restart(p)
  BY <1>4 DEF Crash, Restart
<1> QED
  BY <1>1, <1>2, <1>3, <1>4 DEF Step

(* Every step preserves the type invariant.                                *)
LEMMA TypeStep ==
    ASSUME TypeOK, OwnInv, NEW p \in Procs, Step(p) \/ Crash(p) \/ Restart(p)
    PROVE  TypeOK'
<1>b. heap' \in [Procs -> SUBSET Objects]
  BY HeapTyped DEF TypeOK
<1> USE PcsFacts, <1>b DEF TypeOK, Goto, bytesVars, lockVars
<1>1. CASE set_passwd(p)
  <2>1. CASE AskNew(p)
    BY <2>1 DEF AskNew
  <2>2. CASE bytes_from_random(p)
    <3>1. <<p, session[p]>> \in Salts
      BY DEF Salts
    <3> QED
      BY <2>2, <3>1 DEF bytes_from_random
  <2>3. CASE HashNew(p)
    <3>1. hash_password(salt[p], typed[p]) \in Hashes
      <4>1. typed[p] \in Passwords /\ salt[p] = <<p, session[p]>>
        BY <2>3 DEF HashNew, OwnInv, Own, SetPcs
      <4> QED
        BY <4>1 DEF Hashes, hash_password, Salts
    <3> QED
      BY <2>3, <3>1 DEF HashNew
  <2>4. CASE OpenWrite(p)
    BY <2>4 DEF OpenWrite, Files
  <2>5. CASE Write(p)
    <3>1. salt[p] \in Salts /\ hash[p] \in Hashes
      <4>1. /\ typed[p] \in Passwords /\ salt[p] = <<p, session[p]>>
            /\ hash[p] = hash_password(salt[p], typed[p])
        BY <2>5 DEF Write, OwnInv, Own, SetPcs
      <4> QED
        BY <4>1 DEF Hashes, hash_password, Salts
    <3>2. file' \in Files
      <4>1. CASE file' = Over(<<salt[p], hash[p]>>)
        <5>1. Over(<<salt[p], hash[p]>>) = <<salt[p], hash[p]>>
          BY OverFacts
        <5> QED
          BY <3>1, <4>1, <5>1, FileIntro
      <4>2. CASE file' = Over(<<salt[p]>>)
        <5>1. \/ Over(<<salt[p]>>) = <<salt[p]>>
              \/ file[2] \in Hashes /\ Over(<<salt[p]>>) = <<salt[p], file[2]>>
          <6>1. /\ Len(file) # 2 => Over(<<salt[p]>>) = <<salt[p]>>
                /\ Len(file) = 2 => Over(<<salt[p]>>) = <<salt[p], file[2]>>
            BY OverFacts
          <6> QED
            BY <6>1, FileFacts
        <5> QED
          BY <3>1, <4>2, <5>1, FileIntro
      <4>3. CASE file' = file
        BY <4>3
      <4> QED
        BY <2>5, <4>1, <4>2, <4>3 DEF Write
    <3>3. torn' \in BOOLEAN
      BY <2>5, Zenon DEF Write
    <3> QED
      BY <2>5, <3>2, <3>3 DEF Write
  <2> QED
    BY <1>1, <2>1, <2>2, <2>3, <2>4, <2>5 DEF set_passwd
<1>2. CASE chk_passwd(p)
  <2>1. CASE Ask(p)
    BY <2>1 DEF Ask, Refuse
  <2>2. CASE OpenRead(p)
    BY <2>2 DEF OpenRead, Refuse
  <2>3. CASE ReadSalt(p)
    <3>1. /\ Piece(file) \in Salts \cup {NoBytes}
          /\ Rest(file) \in Buffers
      BY ReadFacts
    <3>2. late' \in [Procs -> BOOLEAN]
      BY <2>3, Zenon DEF ReadSalt
    <3> QED
      BY <2>3, <3>1, <3>2 DEF ReadSalt
  <2>4. CASE ReadHash(p)
    <3>1. HashRead(p) \in Hashes \cup {NoBytes}
      BY FileFacts, BufferFacts DEF HashRead
    <3>2. <<>> \in Buffers
      BY DEF Buffers
    <3> QED
      BY <2>4, <3>1, <3>2 DEF ReadHash, Refuse
  <2>5. CASE Compare(p)
    BY <2>5 DEF Compare, Refuse
  <2> QED
    BY <1>2, <2>1, <2>2, <2>3, <2>4, <2>5 DEF chk_passwd
<1>3. CASE Find(p)
  <2>1. misjudged' \in BOOLEAN
    BY <1>3, Zenon DEF Find
  <2> QED
    BY <1>3, <2>1 DEF Find
<1>4. CASE Recheck(p) \/ Lock(p) \/ CheckFile(p)
  BY <1>4 DEF Recheck, Lock, CheckFile
<1>5. CASE Crash(p)
  BY <1>5 DEF Crash
<1>6. CASE Restart(p)
  <2>1. <<>> \in Buffers
    BY DEF Buffers
  <2> QED
    BY <1>6, <2>1, MaxSessionsAssumption DEF Restart
<1> QED
  BY <1>1, <1>2, <1>3, <1>4, <1>5, <1>6 DEF Step

(* A step of one process leaves what the others have in memory alone.      *)
LEMMA Others ==
    ASSUME TypeOK, NEW p \in Procs, NEW q \in Procs, q # p,
           Step(p) \/ Crash(p) \/ Restart(p)
    PROVE  /\ pc'[q] = pc[q] /\ caller'[q] = caller[q]
           /\ session'[q] = session[q]
           /\ typed'[q] = typed[q] /\ salt'[q] = salt[q] /\ hash'[q] = hash[q]
           /\ buffer'[q] = buffer[q] /\ heap'[q] = heap[q]
           /\ confirmed'[q] = confirmed[q] /\ late'[q] = late[q]
<1>a. /\ pc \in [Procs -> Pcs]
      /\ caller \in [Procs -> {"confirm", "unlock"}]
      /\ session \in [Procs -> 1 .. MaxSessions]
      /\ typed \in [Procs -> Passwords \cup {NoPassword}]
      /\ salt \in [Procs -> Salts \cup {NoBytes}]
      /\ hash \in [Procs -> Hashes \cup {NoBytes}]
      /\ buffer \in [Procs -> Buffers]
      /\ heap \in [Procs -> SUBSET Objects]
      /\ confirmed \in [Procs -> Passwords \cup {NoPassword}]
      /\ late \in [Procs -> BOOLEAN]
  BY DEF TypeOK
<1> USE <1>a DEF Goto, Malloc, Free, bytesVars, lockVars
<1>1. CASE AskNew(p)
  BY <1>1 DEF AskNew
<1>2. CASE bytes_from_random(p)
  BY <1>2 DEF bytes_from_random
<1>3. CASE HashNew(p)
  BY <1>3 DEF HashNew
<1>4. CASE OpenWrite(p)
  BY <1>4 DEF OpenWrite
<1>5. CASE Write(p)
  BY <1>5 DEF Write
<1>6. CASE Ask(p)
  BY <1>6 DEF Ask, Refuse
<1>7. CASE OpenRead(p)
  BY <1>7 DEF OpenRead, Refuse
<1>8. CASE ReadSalt(p)
  BY <1>8 DEF ReadSalt
<1>9. CASE ReadHash(p)
  BY <1>9 DEF ReadHash, Refuse
<1>10. CASE Compare(p)
  BY <1>10 DEF Compare, Refuse
<1>11. CASE Find(p)
  BY <1>11 DEF Find
<1>12. CASE Recheck(p)
  BY <1>12 DEF Recheck
<1>13. CASE Lock(p)
  BY <1>13 DEF Lock
<1>14. CASE CheckFile(p)
  BY <1>14 DEF CheckFile
<1>15. CASE Crash(p)
  BY <1>15 DEF Crash
<1>16. CASE Restart(p)
  BY <1>16 DEF Restart
<1> QED
  BY <1>1, <1>2, <1>3, <1>4, <1>5, <1>6, <1>7, <1>8, <1>9, <1>10, <1>11,
     <1>12, <1>13, <1>14, <1>15, <1>16
     DEF Step, set_passwd, chk_passwd

(* The bytes a process holds.                                              *)
LEMMA OwnStep ==
    ASSUME TypeOK, OwnInv, NEW p \in Procs,
           Step(p) \/ Crash(p) \/ Restart(p)
    PROVE  \A q \in Procs : Own(q)'
<1> SUFFICES ASSUME NEW q \in Procs
             PROVE  Own(q)'
  OBVIOUS
<1>a. CASE q # p
  BY <1>a, Others DEF OwnInv, Own
<1>b. CASE q = p
  <2> USE <1>b DEF OwnInv, Own, TypeOK, Goto, SetPcs, ReadPcs, bytesVars, lockVars
  <2>1. CASE AskNew(p)
    BY <2>1 DEF AskNew
  <2>2. CASE bytes_from_random(p)
    BY <2>2 DEF bytes_from_random
  <2>3. CASE HashNew(p)
    BY <2>3 DEF HashNew
  <2>4. CASE OpenWrite(p)
    BY <2>4 DEF OpenWrite
  <2>5. CASE Write(p)
    BY <2>5 DEF Write
  <2>6. CASE Ask(p)
    BY <2>6 DEF Ask, Refuse
  <2>7. CASE OpenRead(p)
    BY <2>7 DEF OpenRead, Refuse
  <2>8. CASE ReadSalt(p)
    BY <2>8 DEF ReadSalt
  <2>9. CASE ReadHash(p)
    BY <2>9 DEF ReadHash, Refuse
  <2>10. CASE Compare(p)
    BY <2>10 DEF Compare, Refuse
  <2>11. CASE Find(p)
    BY <2>11 DEF Find
  <2>12. CASE Recheck(p)
    BY <2>12 DEF Recheck
  <2>13. CASE Lock(p)
    BY <2>13 DEF Lock
  <2>14. CASE CheckFile(p)
    BY <2>14 DEF CheckFile
  <2>15. CASE Crash(p)
    BY <2>15 DEF Crash
  <2>16. CASE Restart(p)
    BY <2>16 DEF Restart
  <2> QED
    BY <2>1, <2>2, <2>3, <2>4, <2>5, <2>6, <2>7, <2>8, <2>9, <2>10, <2>11,
       <2>12, <2>13, <2>14, <2>15, <2>16
       DEF Step, set_passwd, chk_passwd
<1> QED
  BY <1>a, <1>b

(* What it has allocated.                                                 *)
LEMMA HeapStep ==
    ASSUME TypeOK, HeapInv, NEW p \in Procs,
           Step(p) \/ Crash(p) \/ Restart(p)
    PROVE  \A q \in Procs : HeapOf(q)'
<1> SUFFICES ASSUME NEW q \in Procs
             PROVE  HeapOf(q)'
  OBVIOUS
<1>a. CASE q # p
  BY <1>a, Others DEF HeapInv, HeapOf
<1>b. CASE q = p
  <2> USE <1>b DEF HeapInv, HeapOf, TypeOK, Goto, Malloc, Free, Allocated, Leaked,
                   Read, bytesVars
  <2>1. CASE AskNew(p)
    BY <2>1 DEF AskNew
  <2>2. CASE bytes_from_random(p)
    BY <2>2 DEF bytes_from_random
  <2>3. CASE HashNew(p)
    BY <2>3 DEF HashNew
  <2>4. CASE OpenWrite(p)
    BY <2>4 DEF OpenWrite
  <2>5. CASE Write(p)
    BY <2>5 DEF Write
  <2>6. CASE Ask(p)
    BY <2>6 DEF Ask, Refuse
  <2>7. CASE OpenRead(p)
    BY <2>7 DEF OpenRead, Refuse
  <2>8. CASE ReadSalt(p)
    BY <2>8 DEF ReadSalt
  <2>9. CASE ReadHash(p)
    <3>1. heap[p] \subseteq {"passwd", "salt", "file", "urandom", "lost"}
      BY <2>9 DEF ReadHash
    <3>2. CASE salt[p] = NoBytes \/ HashRead(p) = NoBytes
      <4>1. heap'[p] \subseteq {"urandom", "lost"}
        BY <2>9, <3>1, <3>2 DEF ReadHash
      <4> QED
        BY <4>1
    <3>3. CASE ~(salt[p] = NoBytes \/ HashRead(p) = NoBytes)
      <4>1. /\ heap'[p] = (heap[p] \ {"file"}) \cup {"hash"}
            /\ pc'[p] = "compare"
        BY <2>9, <3>3 DEF ReadHash
      <4> QED
        BY <3>1, <4>1
    <3> QED
      BY <3>2, <3>3
  <2>10. CASE Compare(p)
    BY <2>10 DEF Compare, Refuse
  <2>11. CASE Find(p)
    BY <2>11 DEF Find
  <2>12. CASE Recheck(p)
    BY <2>12 DEF Recheck
  <2>13. CASE Lock(p)
    BY <2>13 DEF Lock
  <2>14. CASE CheckFile(p)
    BY <2>14 DEF CheckFile
  <2>15. CASE Crash(p)
    BY <2>15 DEF Crash
  <2>16. CASE Restart(p)
    BY <2>16 DEF Restart
  <2> QED
    BY <2>1, <2>2, <2>3, <2>4, <2>5, <2>6, <2>7, <2>8, <2>9, <2>10, <2>11,
       <2>12, <2>13, <2>14, <2>15, <2>16
       DEF Step, set_passwd, chk_passwd
<1> QED
  BY <1>a, <1>b

(* No process sets a password once it is locked.                           *)
LEMMA FlowStep ==
    ASSUME TypeOK, FlowInv, NEW p \in Procs,
           Step(p) \/ Crash(p) \/ Restart(p)
    PROVE  \A q \in Procs : Flow(q)'
<1> SUFFICES ASSUME NEW q \in Procs
             PROVE  Flow(q)'
  OBVIOUS
<1>a. CASE q # p
  BY <1>a, Others DEF FlowInv, Flow
<1>b. CASE q = p
  <2> USE <1>b DEF FlowInv, Flow, TypeOK, Goto, ReadPcs, SetPcs, EndPcs
  <2>1. CASE AskNew(p)
    BY <2>1 DEF AskNew
  <2>2. CASE bytes_from_random(p)
    BY <2>2 DEF bytes_from_random
  <2>3. CASE HashNew(p)
    BY <2>3 DEF HashNew
  <2>4. CASE OpenWrite(p)
    BY <2>4 DEF OpenWrite
  <2>5. CASE Write(p)
    BY <2>5 DEF Write
  <2>6. CASE Ask(p)
    BY <2>6 DEF Ask, Refuse
  <2>7. CASE OpenRead(p)
    BY <2>7 DEF OpenRead, Refuse
  <2>8. CASE ReadSalt(p)
    BY <2>8 DEF ReadSalt
  <2>9. CASE ReadHash(p)
    BY <2>9 DEF ReadHash, Refuse
  <2>10. CASE Compare(p)
    BY <2>10 DEF Compare, Refuse
  <2>11. CASE Find(p)
    BY <2>11 DEF Find
  <2>12. CASE Recheck(p)
    BY <2>12 DEF Recheck
  <2>13. CASE Lock(p)
    BY <2>13 DEF Lock
  <2>14. CASE CheckFile(p)
    BY <2>14 DEF CheckFile
  <2>15. CASE Crash(p)
    BY <2>15 DEF Crash
  <2>16. CASE Restart(p)
    BY <2>16 DEF Restart
  <2> QED
    BY <2>1, <2>2, <2>3, <2>4, <2>5, <2>6, <2>7, <2>8, <2>9, <2>10, <2>11,
       <2>12, <2>13, <2>14, <2>15, <2>16
       DEF Step, set_passwd, chk_passwd
<1> QED
  BY <1>a, <1>b

(* The file is truncated by one call and written by another.               *)
LEMMA FileSteps ==
    ASSUME NEW p \in Procs, Step(p) \/ Crash(p) \/ Restart(p)
    PROVE  \/ file' = file /\ torn' = torn
           \/ OpenWrite(p) /\ file' = <<>> /\ torn' = torn
           \/ Write(p) /\ file' = Over(<<salt[p], hash[p]>>) /\ torn' = torn
           \/ Write(p) /\ file' = Over(<<salt[p]>>) /\ torn' = TRUE
<1> USE DEF bytesVars, lockVars, Goto
<1>1. CASE AskNew(p)
  BY <1>1 DEF AskNew
<1>2. CASE bytes_from_random(p)
  BY <1>2 DEF bytes_from_random
<1>3. CASE HashNew(p)
  BY <1>3 DEF HashNew
<1>4. CASE OpenWrite(p)
  BY <1>4 DEF OpenWrite
<1>5. CASE Write(p)
  BY <1>5 DEF Write
<1>6. CASE Ask(p)
  BY <1>6 DEF Ask
<1>7. CASE OpenRead(p)
  BY <1>7 DEF OpenRead
<1>8. CASE ReadSalt(p)
  BY <1>8 DEF ReadSalt
<1>9. CASE ReadHash(p)
  BY <1>9 DEF ReadHash
<1>10. CASE Compare(p)
  BY <1>10 DEF Compare
<1>11. CASE Find(p)
  BY <1>11 DEF Find
<1>12. CASE Recheck(p)
  BY <1>12 DEF Recheck
<1>13. CASE Lock(p)
  BY <1>13 DEF Lock
<1>14. CASE CheckFile(p)
  BY <1>14 DEF CheckFile
<1>15. CASE Crash(p)
  BY <1>15 DEF Crash
<1>16. CASE Restart(p)
  BY <1>16 DEF Restart
<1> QED
  BY <1>1, <1>2, <1>3, <1>4, <1>5, <1>6, <1>7, <1>8, <1>9, <1>10, <1>11,
     <1>12, <1>13, <1>14, <1>15, <1>16
     DEF Step, set_passwd, chk_passwd

(* What a write leaves in the file.                                        *)
LEMMA Written ==
    ASSUME TypeOK, OwnInv, NEW p \in Procs, Write(p)
    PROVE  /\ salt[p] = <<p, session[p]>> /\ salt[p] \in Salts
           /\ typed[p] \in Passwords /\ hash[p] \in Hashes
           /\ hash[p] = hash_password(salt[p], typed[p])
           /\ Over(<<salt[p], hash[p]>>) = <<salt[p], hash[p]>>
           /\ \/ Len(file) # 2 /\ Over(<<salt[p]>>) = <<salt[p]>>
              \/ Len(file) = 2 /\ Over(<<salt[p]>>) = <<salt[p], file[2]>>
<1>1. /\ typed[p] \in Passwords /\ salt[p] = <<p, session[p]>>
      /\ hash[p] = hash_password(salt[p], typed[p])
  BY DEF Write, OwnInv, Own, SetPcs
<1>2. session[p] \in 1 .. MaxSessions /\ file \in Files
  BY DEF TypeOK
<1>3. salt[p] \in Salts
  BY <1>1, <1>2, MaxSessionsAssumption DEF Salts
<1>4. hash[p] \in Hashes
  BY <1>1, <1>3 DEF Hashes, hash_password
<1>5. Over(<<salt[p], hash[p]>>) = <<salt[p], hash[p]>>
  BY <1>2, OverFacts
<1>6. /\ Len(file) # 2 => Over(<<salt[p]>>) = <<salt[p]>>
      /\ Len(file) = 2 => Over(<<salt[p]>>) = <<salt[p], file[2]>>
  BY <1>2, OverFacts
<1> QED
  BY <1>1, <1>3, <1>4, <1>5, <1>6

(* Only a torn write leaves anything but a whole file.                     *)
LEMMA WholeStep ==
    ASSUME TypeOK, OwnInv, WholeFile, NEW p \in Procs,
           Step(p) \/ Crash(p) \/ Restart(p)
    PROVE  WholeFile'
<1>1. CASE file' = file /\ torn' = torn
  BY <1>1 DEF WholeFile
<1>2. CASE file' = <<>>
  BY <1>2 DEF WholeFile
<1>3. CASE Write(p) /\ file' = Over(<<salt[p], hash[p]>>)
  <2>1. file' = Whole(salt[p], typed[p])
    BY <1>3, Written DEF Whole
  <2>2. salt[p] \in Salts /\ typed[p] \in Passwords
    BY <1>3, Written
  <2>3. file' \in WholeFiles
    BY <2>1, <2>2 DEF WholeFiles
  <2> QED
    BY <2>3 DEF WholeFile
<1>4. CASE torn' = TRUE
  BY <1>4 DEF WholeFile
<1> QED
  BY <1>1, <1>2, <1>3, <1>4, FileSteps

(* A salt that is unwritten after a step was unwritten before it, and is   *)
(* not the one just written.                                               *)
LEMMA UnwrittenStep ==
    ASSUME TypeOK, NEW p \in Procs, Step(p) \/ Crash(p) \/ Restart(p),
           NEW q \in Procs, NEW n \in 1 .. MaxSessions, Unwritten(q, n)'
    PROVE  /\ Unwritten(q, n)
           /\ Write(p) => ~(q = p /\ n = session[p])
<1>a. CASE q # p
  BY <1>a, Others DEF Unwritten
<1>b. CASE q = p
  <2>0. /\ session \in [Procs -> 1 .. MaxSessions] /\ pc \in [Procs -> Pcs]
        /\ MaxSessions \in Nat
        /\ Write(p) => pc[p] = "write"
    BY MaxSessionsAssumption DEF TypeOK, Write
  <2> USE <1>b, <2>0 DEF Unwritten, Goto, SetPcs, EndPcs
  <2>1. CASE AskNew(p)
    BY <2>1 DEF AskNew
  <2>2. CASE bytes_from_random(p)
    BY <2>2 DEF bytes_from_random
  <2>3. CASE HashNew(p)
    BY <2>3 DEF HashNew
  <2>4. CASE OpenWrite(p)
    BY <2>4 DEF OpenWrite
  <2>5. CASE Write(p)
    BY <2>5 DEF Write
  <2>6. CASE Ask(p)
    BY <2>6 DEF Ask, Refuse
  <2>7. CASE OpenRead(p)
    BY <2>7 DEF OpenRead, Refuse
  <2>8. CASE ReadSalt(p)
    BY <2>8 DEF ReadSalt
  <2>9. CASE ReadHash(p)
    BY <2>9 DEF ReadHash, Refuse
  <2>10. CASE Compare(p)
    BY <2>10 DEF Compare, Refuse
  <2>11. CASE Find(p)
    BY <2>11 DEF Find
  <2>12. CASE Recheck(p)
    BY <2>12 DEF Recheck
  <2>13. CASE Lock(p)
    BY <2>13 DEF Lock
  <2>14. CASE CheckFile(p)
    BY <2>14 DEF CheckFile
  <2>15. CASE Crash(p)
    BY <2>15 DEF Crash
  <2>16. CASE Restart(p)
    BY <2>16 DEF Restart
  <2> QED
    BY <2>1, <2>2, <2>3, <2>4, <2>5, <2>6, <2>7, <2>8, <2>9, <2>10, <2>11,
       <2>12, <2>13, <2>14, <2>15, <2>16
       DEF Step, set_passwd, chk_passwd
<1> QED
  BY <1>a, <1>b

(* The hash is read after the salt.                                        *)
LEMMA BeginReading ==
    ASSUME TypeOK, NEW p \in Procs, Step(p) \/ Crash(p) \/ Restart(p),
           pc'[p] = "read_hash"
    PROVE  ReadSalt(p)
<1>0. pc \in [Procs -> Pcs]
  BY DEF TypeOK
<1> USE <1>0 DEF Goto
<1>1. CASE AskNew(p)
  BY <1>1 DEF AskNew
<1>2. CASE bytes_from_random(p)
  BY <1>2 DEF bytes_from_random
<1>3. CASE HashNew(p)
  BY <1>3 DEF HashNew
<1>4. CASE OpenWrite(p)
  BY <1>4 DEF OpenWrite
<1>5. CASE Write(p)
  BY <1>5 DEF Write
<1>6. CASE Ask(p)
  BY <1>6 DEF Ask, Refuse
<1>7. CASE OpenRead(p)
  BY <1>7 DEF OpenRead, Refuse
<1>8. CASE ReadSalt(p)
  BY <1>8
<1>9. CASE ReadHash(p)
  BY <1>9 DEF ReadHash, Refuse
<1>10. CASE Compare(p)
  BY <1>10 DEF Compare, Refuse
<1>11. CASE Find(p)
  BY <1>11 DEF Find
<1>12. CASE Recheck(p)
  BY <1>12 DEF Recheck
<1>13. CASE Lock(p)
  BY <1>13 DEF Lock
<1>14. CASE CheckFile(p)
  BY <1>14 DEF CheckFile
<1>15. CASE Crash(p)
  BY <1>15 DEF Crash
<1>16. CASE Restart(p)
  BY <1>16 DEF Restart
<1> QED
  BY <1>1, <1>2, <1>3, <1>4, <1>5, <1>6, <1>7, <1>8, <1>9, <1>10, <1>11,
     <1>12, <1>13, <1>14, <1>15, <1>16
     DEF Step, set_passwd, chk_passwd

LEMMA FreshStep ==
    ASSUME TypeOK, OwnInv, FreshInv, NEW p \in Procs,
           Step(p) \/ Crash(p) \/ Restart(p)
    PROVE  FreshInv'
<1> SUFFICES ASSUME NEW q \in Procs, NEW n \in 1 .. MaxSessions, Unwritten(q, n)'
             PROVE  /\ file' # <<>> => file'[1] # <<q, n>>
                    /\ \A r \in Procs : pc'[r] = "read_hash" => salt'[r] # <<q, n>>
  BY DEF FreshInv
<1>1. Unwritten(q, n) /\ (Write(p) => ~(q = p /\ n = session[p]))
  BY UnwrittenStep
<1>2. /\ file # <<>> => file[1] # <<q, n>>
      /\ \A r \in Procs : pc[r] = "read_hash" => salt[r] # <<q, n>>
  BY <1>1 DEF FreshInv
<1>3. file' # <<>> => file'[1] # <<q, n>>
  <2>1. CASE file' = file \/ file' = <<>>
    BY <1>2, <2>1
  <2>2. CASE Write(p) /\ file' # file /\ file' # <<>>
    <3>1. file'[1] = salt[p]
      <4>1. /\ Over(<<salt[p], hash[p]>>)[1] = salt[p]
            /\ Over(<<salt[p]>>)[1] = salt[p]
        BY <2>2, Written
      <4> QED
        BY <2>2, <4>1, FileSteps, Zenon
    <3>2. salt[p] = <<p, session[p]>>
      BY <2>2, Written
    <3> QED
      BY <1>1, <2>2, <3>1, <3>2
  <2> QED
    BY <2>1, <2>2, FileSteps
<1>4. ASSUME NEW r \in Procs, pc'[r] = "read_hash"
      PROVE  salt'[r] # <<q, n>>
  <2>1. CASE r # p
    BY <1>2, <1>4, <2>1, Others
  <2>2. CASE r = p
    <3>1. ReadSalt(p)
      BY <1>4, <2>2, BeginReading
    <3>2. file \in Files /\ salt \in [Procs -> Salts \cup {NoBytes}]
      BY DEF TypeOK
    <3>3. <<q, n>> \in Salts
      BY MaxSessionsAssumption DEF Salts
    <3>4. salt'[p] = Piece(file)
      BY <3>1, <3>2 DEF ReadSalt
    <3>5. Piece(file) = NoBytes \/ (file # <<>> /\ Piece(file) = file[1])
      BY <3>2, PieceFacts
    <3> QED
      BY <1>2, <2>2, <3>3, <3>4, <3>5, NoBytesAssumption
  <2> QED
    BY <2>1, <2>2
<1> QED
  BY <1>3, <1>4

LEMMA TornStep ==
    ASSUME TypeOK, OwnInv, FreshInv, TornInv, NEW p \in Procs,
           Step(p) \/ Crash(p) \/ Restart(p), NEW q \in Procs
    PROVE  Torn(q)'
<1> SUFFICES ASSUME pc'[q] = "read_hash", buffer'[q] = <<>>, Len(file') = 2
             PROVE  file'[2].salt # salt'[q]
  BY DEF Torn
<1>1. CASE q # p
  <2>0. pc[q] = "read_hash" /\ buffer[q] = <<>> /\ salt'[q] = salt[q]
    BY <1>1, Others
  <2>1. Len(file) = 2 => file[2].salt # salt[q]
    BY <2>0 DEF TornInv, Torn
  <2>2. CASE file' = file
    BY <2>0, <2>1, <2>2
  <2>3. CASE file' = <<>>
    <3>1. Len(file') = 0
      BY <2>3
    <3> QED
      BY <3>1
  <2>4. CASE Write(p) /\ file' = Over(<<salt[p], hash[p]>>)
    <3>1. file' = <<salt[p], hash[p]>>
      BY <2>4, Written
    <3>2. file'[2] = hash[p]
      BY <3>1
    <3>3. hash[p].salt = <<p, session[p]>>
      <4>1. hash[p] = hash_password(salt[p], typed[p]) /\ salt[p] = <<p, session[p]>>
        BY <2>4, Written
      <4> QED
        BY <4>1 DEF hash_password
    <3>4. session[p] \in 1 .. MaxSessions /\ Unwritten(p, session[p])
      BY <2>4 DEF TypeOK, Unwritten, Write, SetPcs
    <3>5. salt[q] # <<p, session[p]>>
      BY <2>0, <3>4 DEF FreshInv
    <3> QED
      BY <2>0, <3>2, <3>3, <3>5
  <2>5. CASE Write(p) /\ file' = Over(<<salt[p]>>)
    <3>1. CASE Len(file) # 2 /\ file' = <<salt[p]>>
      <4>1. Len(file') = 1
        BY <3>1
      <4> QED
        BY <4>1
    <3>2. CASE Len(file) = 2 /\ file' = <<salt[p], file[2]>>
      <4>1. file'[2] = file[2]
        BY <3>2
      <4> QED
        BY <2>0, <2>1, <3>2, <4>1
    <3> QED
      BY <2>5, <3>1, <3>2, Written
  <2> QED
    BY <2>2, <2>3, <2>4, <2>5, FileSteps
<1>2. CASE q = p
  <2>1. ReadSalt(p)
    BY <1>2, BeginReading
  <2>2. file' = file /\ Rest(file) = <<>>
    BY <1>2, <2>1 DEF ReadSalt, TypeOK
  <2>3. Len(file) # 2
    BY <2>2, PieceFacts DEF TypeOK
  <2> QED
    BY <2>2, <2>3
<1> QED
  BY <1>1, <1>2

(* What has been misjudged stays so.                                       *)
LEMMA MisjudgedStays ==
    ASSUME NEW p \in Procs, Step(p) \/ Crash(p) \/ Restart(p), ~misjudged'
    PROVE  ~misjudged
<1>1. CASE AskNew(p)
  BY <1>1 DEF AskNew
<1>2. CASE bytes_from_random(p)
  BY <1>2 DEF bytes_from_random
<1>3. CASE HashNew(p)
  BY <1>3 DEF HashNew
<1>4. CASE OpenWrite(p)
  BY <1>4 DEF OpenWrite
<1>5. CASE Write(p)
  BY <1>5 DEF Write
<1>6. CASE Ask(p)
  BY <1>6 DEF Ask, Refuse
<1>7. CASE OpenRead(p)
  BY <1>7 DEF OpenRead, Refuse
<1>8. CASE ReadSalt(p)
  BY <1>8 DEF ReadSalt
<1>9. CASE ReadHash(p)
  BY <1>9 DEF ReadHash, Refuse
<1>10. CASE Compare(p)
  BY <1>10 DEF Compare, Refuse
<1>11. CASE Find(p)
  BY <1>11 DEF Find
<1>12. CASE Recheck(p)
  BY <1>12 DEF Recheck
<1>13. CASE Lock(p)
  BY <1>13 DEF Lock
<1>14. CASE CheckFile(p)
  BY <1>14 DEF CheckFile
<1>15. CASE Crash(p)
  BY <1>15 DEF Crash
<1>16. CASE Restart(p)
  BY <1>16 DEF Restart
<1> QED
  BY <1>1, <1>2, <1>3, <1>4, <1>5, <1>6, <1>7, <1>8, <1>9, <1>10, <1>11,
     <1>12, <1>13, <1>14, <1>15, <1>16
     DEF Step, set_passwd, chk_passwd

(* While the file is whole and quiet around q, no other process changes it *)
(* or begins to, unless it misjudges the file.                             *)
LEMMA QuietStep ==
    ASSUME TypeOK, NEW p \in Procs, Step(p) \/ Crash(p) \/ Restart(p),
           NEW q \in Procs, q # p, Quiet(q), ~misjudged'
    PROVE  /\ file' = file /\ Quiet(q)'
           /\ ~misjudged
<1>0. pc \in [Procs -> Pcs] /\ pc[p] \notin SetPcs /\ chk_passwd_set
  BY DEF TypeOK, Quiet, chk_passwd_set
<1>1. file' = file /\ pc'[p] \notin SetPcs /\ ~misjudged
  <2> USE <1>0 DEF SetPcs, EndPcs, Goto, bytesVars, lockVars
  <2>1. CASE AskNew(p)
    BY <2>1 DEF AskNew
  <2>2. CASE bytes_from_random(p)
    BY <2>2 DEF bytes_from_random
  <2>3. CASE HashNew(p)
    BY <2>3 DEF HashNew
  <2>4. CASE OpenWrite(p)
    BY <2>4 DEF OpenWrite
  <2>5. CASE Write(p)
    BY <2>5 DEF Write
  <2>6. CASE Ask(p)
    BY <2>6 DEF Ask, Refuse
  <2>7. CASE OpenRead(p)
    BY <2>7 DEF OpenRead, Refuse
  <2>8. CASE ReadSalt(p)
    BY <2>8 DEF ReadSalt
  <2>9. CASE ReadHash(p)
    BY <2>9 DEF ReadHash, Refuse
  <2>10. CASE Compare(p)
    BY <2>10 DEF Compare, Refuse
  <2>11. CASE Find(p)
    <3>1. file' = file /\ ~misjudged
      BY <2>11, MisjudgedStays DEF Find
    <3>2. pc' = [pc EXCEPT ![p] = "ask"]
      BY <2>11, Zenon DEF Find
    <3> QED
      BY <3>1, <3>2
  <2>12. CASE Recheck(p)
    BY <2>12 DEF Recheck
  <2>13. CASE Lock(p)
    BY <2>13 DEF Lock
  <2>14. CASE CheckFile(p)
    BY <2>14 DEF CheckFile
  <2>15. CASE Crash(p)
    BY <2>15 DEF Crash
  <2>16. CASE Restart(p)
    BY <2>16 DEF Restart
  <2> QED
    BY <2>1, <2>2, <2>3, <2>4, <2>5, <2>6, <2>7, <2>8, <2>9, <2>10, <2>11,
       <2>12, <2>13, <2>14, <2>15, <2>16
       DEF Step, set_passwd, chk_passwd
<1>2. \A r \in Procs \ {p} : pc'[r] = pc[r]
  BY Others
<1> QED
  BY <1>1, <1>2 DEF Quiet

LEMMA KeepOthers ==
    ASSUME TypeOK, KeepInv, NEW p \in Procs,
           Step(p) \/ Crash(p) \/ Restart(p), NEW q \in Procs, q # p
    PROVE  Keep(q)'
<1> SUFFICES ASSUME ~late'[q], ~misjudged'
             PROVE  Keep(q)'
  BY DEF Keep
<1>1. /\ pc'[q] = pc[q] /\ caller'[q] = caller[q] /\ late'[q] = late[q]
      /\ salt'[q] = salt[q] /\ hash'[q] = hash[q] /\ buffer'[q] = buffer[q]
      /\ typed'[q] = typed[q] /\ confirmed'[q] = confirmed[q]
  BY Others
<1>2. Matches(q)' <=> Matches(q)
  BY <1>1 DEF Matches, hash_password
<1>3. Locked(q)' <=> Locked(q)
  BY <1>1 DEF Locked
<1>4. Quiet(q) => file' = file /\ Quiet(q)' /\ ~misjudged
  BY QuietStep
<1>5. file' = file => Stored' = Stored
  BY DEF Stored
<1>6. ~misjudged
  BY MisjudgedStays
<1>7. /\ pc[q] = "read_hash" /\ caller[q] = "confirm" /\ buffer[q] # <<>>
           => Quiet(q) /\ file = <<salt[q], buffer[q][1]>>
      /\ pc[q] = "compare" /\ caller[q] = "confirm" /\ Matches(q)
           => Quiet(q) /\ file = <<salt[q], hash[q]>>
      /\ pc[q] = "lock" \/ Locked(q)
           => Quiet(q) /\ Stored = confirmed[q]
  BY <1>1, <1>6 DEF KeepInv, Keep
<1>8. /\ pc'[q] = "read_hash" /\ caller'[q] = "confirm" /\ buffer'[q] # <<>>
           => Quiet(q)' /\ file' = <<salt'[q], buffer'[q][1]>>
      /\ pc'[q] = "compare" /\ caller'[q] = "confirm" /\ Matches(q)'
           => Quiet(q)' /\ file' = <<salt'[q], hash'[q]>>
      /\ pc'[q] = "lock" \/ Locked(q)'
           => Quiet(q)' /\ Stored' = confirmed'[q]
  BY <1>1, <1>2, <1>3, <1>4, <1>5, <1>7, Zenon
<1> QED
  BY <1>8 DEF Keep

(* The password p has confirmed, or is about to, stays in the file.        *)
LEMMA KeepOwn ==
    ASSUME TypeOK, FlowInv, TornInv, KeepInv, NEW p \in Procs,
           Step(p) \/ Crash(p) \/ Restart(p)
    PROVE  Keep(p)'
<1> SUFFICES ASSUME ~late'[p], ~misjudged'
             PROVE  Keep(p)'
  BY DEF Keep
<1>a. /\ pc \in [Procs -> Pcs]
      /\ caller \in [Procs -> {"confirm", "unlock"}]
      /\ typed \in [Procs -> Passwords \cup {NoPassword}]
      /\ salt \in [Procs -> Salts \cup {NoBytes}]
      /\ hash \in [Procs -> Hashes \cup {NoBytes}]
      /\ buffer \in [Procs -> Buffers]
      /\ confirmed \in [Procs -> Passwords \cup {NoPassword}]
      /\ late \in [Procs -> BOOLEAN]
      /\ file \in Files
  BY DEF TypeOK
<1>b. ~misjudged
  BY MisjudgedStays
<1>c. ~late[p] =>
        /\ pc[p] = "read_hash" /\ caller[p] = "confirm" /\ buffer[p] # <<>>
             => Quiet(p) /\ file = <<salt[p], buffer[p][1]>>
        /\ pc[p] = "compare" /\ caller[p] = "confirm" /\ Matches(p)
             => Quiet(p) /\ file = <<salt[p], hash[p]>>
        /\ pc[p] = "lock" \/ Locked(p)
             => Quiet(p) /\ Stored = confirmed[p]
  BY <1>b DEF KeepInv, Keep
<1>d. file' = file => (Quiet(p) => Quiet(p)') /\ Stored' = Stored
  <2>1. \A q \in Procs \ {p} : pc'[q] = pc[q]
    BY Others
  <2> QED
    BY <2>1 DEF Quiet, Stored
<1>1. ASSUME pc'[p] \notin {"read_hash", "compare", "lock"},
             caller'[p] = "confirm" \/ pc'[p] \in EndPcs
      PROVE  Keep(p)'
  BY <1>1 DEF Keep, Locked, EndPcs
<1>2. ASSUME file' = file, confirmed'[p] = confirmed[p], late'[p] = late[p],
             Locked(p) \/ pc[p] = "lock", caller'[p] = "unlock", pc'[p] # "lock"
      PROVE  Keep(p)'
  <2>1. Quiet(p)' /\ Stored' = confirmed'[p]
    BY <1>2, <1>c, <1>d
  <2> QED
    BY <1>2, <2>1 DEF Keep
<1>3. CASE Find(p) \/ Recheck(p) \/ set_passwd(p) \/ Crash(p) \/ Restart(p)
  <2> USE <1>a DEF Goto
  <2>1. CASE Find(p) \/ Recheck(p) \/ set_passwd(p)
    <3>1. pc[p] \in {"find", "recheck"} \cup SetPcs
      BY <2>1 DEF Find, Recheck, set_passwd, AskNew, bytes_from_random, HashNew,
                  OpenWrite, Write, SetPcs
    <3>2. caller[p] = "confirm"
      BY <3>1 DEF FlowInv, Flow, SetPcs, ReadPcs, EndPcs
    <3>3. pc'[p] \notin {"read_hash", "compare", "lock"} /\ caller'[p] = "confirm"
      BY <2>1, <3>2 DEF Find, Recheck, set_passwd, AskNew, bytes_from_random,
                        HashNew, OpenWrite, Write
    <3> QED
      BY <1>1, <3>3
  <2>2. CASE Crash(p) \/ Restart(p)
    BY <1>1, <2>2 DEF Crash, Restart, EndPcs
  <2> QED
    BY <1>3, <2>1, <2>2
<1>4. CASE (chk_passwd(p) \/ CheckFile(p)) /\ caller[p] = "unlock"
  <2> USE <1>a DEF Goto, bytesVars, lockVars
  <2>1. Locked(p)
    BY <1>4 DEF Locked, chk_passwd, CheckFile, Ask, OpenRead, ReadSalt, ReadHash,
                Compare, EndPcs
  <2>2. file' = file /\ caller'[p] = "unlock" /\ pc'[p] # "lock"
    <3>1. CASE Ask(p) \/ OpenRead(p) \/ CheckFile(p)
      BY <1>4, <3>1 DEF Ask, OpenRead, CheckFile, Refuse
    <3>2. CASE ReadSalt(p) \/ ReadHash(p)
      BY <1>4, <3>2 DEF ReadSalt, ReadHash, Refuse
    <3>3. CASE Compare(p)
      BY <1>4, <3>3 DEF Compare, Refuse
    <3> QED
      BY <1>4, <3>1, <3>2, <3>3 DEF chk_passwd
  <2>3. confirmed' = confirmed /\ late' = late
    BY <1>4 DEF chk_passwd, CheckFile, Ask, OpenRead, ReadSalt, ReadHash, Compare
  <2> QED
    BY <1>2, <2>1, <2>2, <2>3
<1>5. CASE (Ask(p) \/ OpenRead(p) \/ CheckFile(p)) /\ caller[p] = "confirm"
  <2>1. pc'[p] \notin {"read_hash", "compare", "lock"} /\ caller'[p] = "confirm"
    BY <1>5, <1>a DEF Ask, OpenRead, CheckFile, Goto, Refuse
  <2> QED
    BY <1>1, <2>1
<1>6. CASE ReadSalt(p) /\ caller[p] = "confirm"
  <2>1. /\ pc'[p] = "read_hash" /\ caller'[p] = "confirm" /\ file' = file
        /\ salt'[p] = Piece(file) /\ buffer'[p] = Rest(file)
    BY <1>6, <1>a DEF ReadSalt, Goto
  <2>2. ~\E q \in Procs \ {p} : pc[q] \in SetPcs
    <3>1. late'[p] = \E q \in Procs \ {p} : pc[q] \in SetPcs
      BY <1>6, <1>a DEF ReadSalt
    <3> QED
      BY <3>1
  <2>3. ASSUME Rest(file) # <<>>
        PROVE  Quiet(p) /\ file = <<Piece(file), Rest(file)[1]>>
    BY <1>a, <2>2, <2>3, PieceFacts DEF Quiet
  <2>4. buffer'[p] # <<>> => Quiet(p)' /\ file' = <<salt'[p], buffer'[p][1]>>
    BY <1>d, <2>1, <2>3
  <2> QED
    BY <2>1, <2>4 DEF Keep, Locked
<1>7. CASE ReadHash(p) /\ caller[p] = "confirm"
  <2>1. /\ pc[p] = "read_hash" /\ file' = file /\ salt' = salt /\ typed' = typed
        /\ caller'[p] = "confirm" /\ hash'[p] = HashRead(p) /\ late' = late
        /\ pc'[p] \in {"ended", "compare"}
        /\ pc'[p] = "compare" => salt[p] # NoBytes /\ HashRead(p) # NoBytes
    BY <1>7, <1>a DEF ReadHash, Goto, Refuse, lockVars
  <2>2. ASSUME pc'[p] = "compare", Matches(p)'
        PROVE  Quiet(p)' /\ file' = <<salt'[p], hash'[p]>>
    <3>1. CASE buffer[p] # <<>>
      <4>1. hash'[p] = buffer[p][1]
        BY <2>1, <3>1 DEF HashRead
      <4>2. Quiet(p) /\ file = <<salt[p], buffer[p][1]>>
        BY <1>7, <1>c, <2>1, <3>1
      <4> QED
        BY <1>d, <2>1, <4>1, <4>2
    <3>2. CASE buffer[p] = <<>>
      <4>1. Len(file) = 2 /\ hash'[p] = file[2]
        BY <1>a, <2>1, <2>2, <3>2, FileFacts DEF HashRead
      <4>2. file[2].salt # salt[p]
        BY <2>1, <3>2, <4>1 DEF TornInv, Torn
      <4>3. hash'[p].salt = salt[p]
        BY <2>1, <2>2 DEF Matches, hash_password
      <4> QED
        BY <4>1, <4>2, <4>3
    <3> QED
      BY <3>1, <3>2
  <2>3. CASE pc'[p] = "compare"
    BY <2>1, <2>2, <2>3 DEF Keep, Locked
  <2>4. CASE pc'[p] = "ended"
    BY <1>1, <2>1, <2>4
  <2> QED
    BY <2>1, <2>3, <2>4
<1>8. CASE Compare(p) /\ caller[p] = "confirm"
  <2>1. /\ pc[p] = "compare" /\ file' = file /\ late' = late
        /\ caller'[p] = "confirm" /\ pc'[p] \in {"ended", "lock"}
        /\ pc'[p] = "lock" => Matches(p) /\ confirmed'[p] = typed[p]
    BY <1>8, <1>a DEF Compare, Goto, Refuse
  <2>2. CASE pc'[p] = "ended"
    BY <1>1, <2>1, <2>2
  <2>3. CASE pc'[p] = "lock"
    <3>1. Quiet(p) /\ file = <<salt[p], hash[p]>>
      BY <1>8, <1>c, <2>1, <2>3
    <3>2. Stored = typed[p]
      <4>1. file[2] = hash[p] /\ file[1] = salt[p] /\ Len(file) = 2
        BY <3>1
      <4>2. hash[p].salt = salt[p] /\ hash[p].passwd = typed[p]
        BY <2>1, <2>3 DEF Matches, hash_password
      <4> QED
        BY <4>1, <4>2 DEF Stored
    <3>3. Quiet(p)' /\ Stored' = confirmed'[p]
      BY <1>d, <2>1, <2>3, <3>1, <3>2
    <3> QED
      BY <2>3, <3>3 DEF Keep
  <2> QED
    BY <2>1, <2>2, <2>3
<1>9. CASE Lock(p)
  <2>1. /\ pc[p] = "lock" /\ file' = file /\ confirmed' = confirmed
        /\ late' = late
        /\ \/ pc'[p] = "ended"
           \/ pc'[p] = "loop" /\ caller'[p] = "unlock"
    BY <1>9, <1>a DEF Lock, Goto, lockVars
  <2> QED
    BY <1>1, <1>2, <2>1 DEF EndPcs
<1> QED
  BY <1>a, <1>3, <1>4, <1>5, <1>6, <1>7, <1>8, <1>9 DEF Step, chk_passwd

-----------------------------------------------------------------------------
LEMMA IInvInit == Init => IInv
<1> SUFFICES ASSUME Init PROVE IInv
  OBVIOUS
<1>1. TypeOK
  <2>1. file \in Files
    <3>1. CASE file = <<>>
      BY <3>1, FileIntro
    <3>2. ASSUME NEW pw \in Passwords, file = Whole(<<Nobody, 0>>, pw)
          PROVE  file \in Files
      <4>1. <<Nobody, 0>> \in Salts
        BY MaxSessionsAssumption DEF Salts
      <4>2. hash_password(<<Nobody, 0>>, pw) \in Hashes
        BY <4>1 DEF hash_password, Hashes
      <4> QED
        BY <3>2, <4>1, <4>2, FileIntro DEF Whole
    <3> QED
      BY <3>1, <3>2 DEF Init
  <2>2. <<>> \in Buffers
    BY DEF Buffers
  <2> QED
    <3>1. 1 \in 1 .. MaxSessions
      BY MaxSessionsAssumption
    <3>2. /\ pc \in [Procs -> Pcs] /\ caller \in [Procs -> {"confirm", "unlock"}]
          /\ session \in [Procs -> 1 .. MaxSessions]
      BY <3>1, PcsFacts DEF Init
    <3>3. /\ typed \in [Procs -> Passwords \cup {NoPassword}]
          /\ salt \in [Procs -> Salts \cup {NoBytes}]
          /\ hash \in [Procs -> Hashes \cup {NoBytes}]
          /\ buffer \in [Procs -> Buffers]
      BY <2>2 DEF Init
    <3>4. /\ heap \in [Procs -> SUBSET Objects]
          /\ confirmed \in [Procs -> Passwords \cup {NoPassword}]
          /\ late \in [Procs -> BOOLEAN]
          /\ torn \in BOOLEAN /\ misjudged \in BOOLEAN
      BY DEF Init
    <3> QED
      BY <2>1, <3>2, <3>3, <3>4 DEF TypeOK
<1>2. OwnInv /\ FlowInv
  BY DEF Init, OwnInv, Own, FlowInv, Flow, ReadPcs, SetPcs
<1>3. HeapInv
  BY DEF Init, HeapInv, HeapOf
<1>4. FreshInv
  <2>1. ASSUME NEW q \in Procs, NEW n \in 1 .. MaxSessions, file # <<>>
        PROVE  file[1] # <<q, n>>
    <3>1. file[1] = <<Nobody, 0>>
      BY <2>1 DEF Init, Whole
    <3> QED
      BY <3>1, NobodyAssumption
  <2>2. \A q \in Procs : pc[q] # "read_hash"
    BY DEF Init
  <2> QED
    BY <2>1, <2>2 DEF FreshInv
<1>5. TornInv /\ KeepInv
  BY DEF Init, TornInv, Torn, KeepInv, Keep, Locked
<1>6. WholeFile
  <2>1. <<Nobody, 0>> \in Salts
    BY MaxSessionsAssumption DEF Salts
  <2> QED
    BY <2>1 DEF Init, WholeFile, WholeFiles
<1> QED
  BY <1>1, <1>2, <1>3, <1>4, <1>5, <1>6 DEF IInv

LEMMA IInvStep == IInv /\ [Next]_vars => IInv'
<1> SUFFICES ASSUME IInv, [Next]_vars PROVE IInv'
  OBVIOUS
<1>1. CASE UNCHANGED vars
  BY <1>1 DEF vars, flowVars, bytesVars, lockVars, IInv, TypeOK, OwnInv, Own,
     HeapInv, HeapOf, FlowInv, Flow, FreshInv, Unwritten, TornInv, Torn, KeepInv,
     Keep, Quiet, Locked, Matches, Stored, WholeFile
<1>2. ASSUME NEW p \in Procs, Step(p) \/ Crash(p) \/ Restart(p)
      PROVE  IInv'
  <2>1. TypeOK'
    BY <1>2, TypeStep DEF IInv
  <2>2. OwnInv' /\ HeapInv' /\ FlowInv'
    BY <1>2, OwnStep, HeapStep, FlowStep DEF IInv, OwnInv, HeapInv, FlowInv
  <2>3. FreshInv' /\ WholeFile'
    BY <1>2, FreshStep, WholeStep DEF IInv
  <2>4. TornInv'
    BY <1>2, TornStep DEF IInv, TornInv
  <2>5. KeepInv'
    BY <1>2, KeepOwn, KeepOthers DEF IInv, KeepInv
  <2> QED
    BY <2>1, <2>2, <2>3, <2>4, <2>5 DEF IInv
<1> QED
  BY <1>1, <1>2 DEF Next

LEMMA Invariance == Spec => []IInv
  BY IInvInit, IInvStep, PTL DEF Spec

(* Every variable keeps its type.                                          *)
THEOREM TypeCorrect == Spec => []TypeOK
<1>1. IInv => TypeOK
  BY DEF IInv
<1> QED
  BY <1>1, Invariance, PTL

(* However many processes set a password at once, the file is never a      *)
(* mixture of theirs.                                                      *)
THEOREM FileStaysWhole == Spec => []WholeFile
<1>1. IInv => WholeFile
  BY DEF IInv
<1> QED
  BY <1>1, Invariance, PTL

(* set_passwd and chk_passwd free what they allocate, whatever fails, but  *)
(* for the two FILEs that hash.c and passwd.c forget to close.             *)
THEOREM NothingElseLeaks == Spec => []LeaksOnlyFiles
<1>1. IInv => LeaksOnlyFiles
  <2> SUFFICES ASSUME IInv, NEW p \in Procs, pc[p] \notin SetPcs \cup ReadPcs
               PROVE  heap[p] \subseteq {"urandom", "lost"}
    BY DEF LeaksOnlyFiles
  <2>1. Allocated(pc[p]) = {}
    BY DEF Allocated, SetPcs, ReadPcs
  <2> QED
    BY <2>1 DEF IInv, HeapInv, HeapOf, Leaked
<1> QED
  BY <1>1, Invariance, PTL

(* The password confirmed before the lock is in the file until the unlock. *)
THEOREM ConfirmedStays == Spec => []ConfirmedKept
<1>1. IInv => ConfirmedKept
  BY DEF IInv, KeepInv, Keep, ConfirmedKept
<1> QED
  BY <1>1, Invariance, PTL

-----------------------------------------------------------------------------
(* Refinement: every step is a step of PasswordStore, or changes nothing   *)
(* of it.                                                                  *)

LEMMA StoredFacts ==
    ASSUME NEW f \in Files
    PROVE  (IF Len(f) = 2 /\ f[2].salt = f[1] THEN f[2].passwd ELSE NoPassword)
             \in Passwords \cup {NoPassword}
<1>1. CASE Len(f) = 2 /\ f[2] \in Hashes
  BY <1>1 DEF Hashes
<1>2. CASE Len(f) # 2
  BY <1>2
<1> QED
  BY <1>1, <1>2, FileFacts

(* What the others know of their answers stays.                            *)
LEMMA CheckOthers ==
    ASSUME TypeOK, NEW p \in Procs, Step(p) \/ Crash(p) \/ Restart(p),
           NEW c, Check(p)' = c
    PROVE  [q \in Procs |-> Check(q)]' = [[q \in Procs |-> Check(q)] EXCEPT ![p] = c]
<1>1. ASSUME NEW q \in Procs \ {p}
      PROVE  Check(q)' = Check(q)
  <2>1. /\ pc'[q] = pc[q] /\ typed'[q] = typed[q] /\ salt'[q] = salt[q]
        /\ hash'[q] = hash[q] /\ buffer'[q] = buffer[q]
    BY Others
  <2> QED
    BY <2>1 DEF Check, Matches, hash_password
<1> QED
  BY <1>1

LEMMA StoreInit == Init => Store!Init
<1> SUFFICES ASSUME Init PROVE Store!Init
  OBVIOUS
<1>1. \A p \in Procs : Check(p) = "none"
  BY DEF Init, Check
<1>2. Stored \in Passwords \cup {NoPassword}
  BY IInvInit, StoredFacts DEF IInv, TypeOK, Stored
<1> QED
  BY <1>1, <1>2 DEF Init, Store!Init, Store!Answers

LEMMA StoreStep ==
    ASSUME IInv, IInv', NEW p \in Procs, Step(p) \/ Crash(p) \/ Restart(p)
    PROVE  [Store!Next]_(Store!storeVars)
<1> DEFINE check == [q \in Procs |-> Check(q)]
<1>a. /\ pc \in [Procs -> Pcs]
      /\ typed \in [Procs -> Passwords \cup {NoPassword}]
      /\ salt \in [Procs -> Salts \cup {NoBytes}]
      /\ hash \in [Procs -> Hashes \cup {NoBytes}]
      /\ buffer \in [Procs -> Buffers]
      /\ file \in Files
      /\ caller \in [Procs -> {"confirm", "unlock"}]
  BY DEF IInv, TypeOK
<1>b. Stored \in Passwords \cup {NoPassword} /\ Stored' \in Passwords \cup {NoPassword}
  <2>1. file \in Files /\ file' \in Files
    BY DEF IInv, TypeOK
  <2> QED
    BY <2>1, StoredFacts DEF Stored
<1>c. file' = file => Stored' = Stored
  BY DEF Stored
<1>d. \A c : Check(p)' = c => check' = [check EXCEPT ![p] = c]
  BY CheckOthers DEF IInv
<1>e. check[p] = Check(p) /\ (Check(p)' = Check(p) => check' = check)
  <2>1. check = [check EXCEPT ![p] = Check(p)]
    OBVIOUS
  <2> QED
    BY <1>d, <2>1
<1> HIDE DEF check
<1>1. ASSUME typed' = typed, Check(p)' = Check(p)
      PROVE  [Store!Next]_(Store!storeVars)
  <2>1. check' = check
    BY <1>1, <1>e
  <2>2. CASE Stored' = Stored
    BY <1>1, <2>1, <2>2 DEF Store!storeVars, check
  <2>3. CASE Stored' # Stored
    <3>1. Store!Rewrite
      BY <1>1, <1>b, <2>1 DEF Store!Rewrite, Store!Answers, check
    <3> QED
      BY <3>1 DEF Store!Next
  <2> QED
    BY <2>2, <2>3
<1>2. ASSUME file' = file, NEW a \in Passwords \cup {NoPassword},
             typed' = [typed EXCEPT ![p] = a], Check(p)' \in {"none", "open"}
      PROVE  Store!Next
  <2>1. check' = [check EXCEPT ![p] = Check(p)']
    BY <1>d
  <2>2. Store!Answer(p)
    BY <1>2, <1>c, <2>1 DEF Store!Answer, Store!Answers, check
  <2> QED
    BY <2>2 DEF Store!Next
<1>3. ASSUME file' = file, typed' = typed, Check(p)' = "none"
      PROVE  Store!Next
  <2>1. check' = [check EXCEPT ![p] = "none"]
    BY <1>3, <1>d
  <2>2. Store!Refuse(p)
    BY <1>3, <1>c, <2>1 DEF Store!Refuse, check
  <2> QED
    BY <2>2 DEF Store!Next
<1>4. ASSUME file' = file, typed' = typed, Check(p) = "open",
             \/ Check(p)' = "wrong"
             \/ Check(p)' = "right" /\ Stored # NoPassword /\ typed[p] = Stored
      PROVE  Store!Next
  <2>1. check' = [check EXCEPT ![p] = Check(p)'] /\ check[p] = "open"
    BY <1>4, <1>d, <1>e
  <2>2. Store!Look(p)
    BY <1>4, <1>c, <2>1 DEF Store!Look, check
  <2> QED
    BY <2>2 DEF Store!Next
<1>5. ASSUME file' = file, typed' = typed, Check(p) = "right",
             Check(p)' = "accepted"
      PROVE  Store!Next
  <2>1. check' = [check EXCEPT ![p] = "accepted"] /\ check[p] = "right"
    BY <1>5, <1>d, <1>e
  <2>2. Store!Accept(p)
    BY <1>5, <1>c, <2>1 DEF Store!Accept, check
  <2> QED
    BY <2>2 DEF Store!Next
<1>6. CASE Find(p) \/ Recheck(p) \/ CheckFile(p) \/ bytes_from_random(p)
           \/ HashNew(p) \/ OpenWrite(p) \/ Write(p)
  <2>1. typed' = typed
    BY <1>6 DEF Find, Recheck, CheckFile, bytes_from_random, HashNew, OpenWrite,
                Write, bytesVars
  <2>2. Check(p) = "none"
    BY <1>6 DEF Check, Find, Recheck, CheckFile, bytes_from_random, HashNew,
                OpenWrite, Write
  <2>3. pc'[p] \in {"ask", "new", "ended", "sha512", "open_w", "write", "recheck"}
    BY <1>6, <1>a DEF Find, Recheck, CheckFile, bytes_from_random, HashNew,
                OpenWrite, Write, Goto
  <2>4. Check(p)' = "none"
    BY <2>3 DEF Check
  <2> QED
    BY <1>1, <2>1, <2>2, <2>4
<1>7. CASE AskNew(p) \/ Ask(p)
  <2>0. file' = file /\ Check(p) = "none"
    BY <1>7 DEF AskNew, Ask, Check
  <2>1. CASE typed' = typed
    <3>1. pc'[p] \in {"ended", "loop", "random", "open_r"}
      BY <1>7, <1>a DEF AskNew, Ask, Goto, Refuse
    <3>2. CASE pc'[p] # "open_r"
      <4>1. Check(p)' = "none"
        BY <3>1, <3>2 DEF Check
      <4> QED
        BY <1>1, <2>0, <2>1, <4>1
    <3>3. CASE pc'[p] = "open_r"
      <4>1. \E pw \in Passwords : typed' = [typed EXCEPT ![p] = pw]
        BY <1>7, <1>a, <3>3 DEF AskNew, Ask, Goto, Refuse
      <4>2. Check(p)' = "open"
        BY <3>3 DEF Check
      <4> QED
        BY <1>2, <2>0, <4>1, <4>2
    <3> QED
      BY <3>2, <3>3
  <2>2. CASE typed' # typed
    <3>1. \E pw \in Passwords : typed' = [typed EXCEPT ![p] = pw]
      BY <1>7, <2>2 DEF AskNew, Ask
    <3>2. pc'[p] \in {"random", "open_r"}
      BY <1>7, <1>a, <2>2 DEF AskNew, Ask, Goto
    <3>3. Check(p)' \in {"none", "open"}
      BY <3>2 DEF Check
    <3> QED
      BY <1>2, <2>0, <3>1, <3>3
  <2> QED
    BY <2>1, <2>2
<1>8. CASE OpenRead(p)
  <2>1. /\ typed' = typed /\ file' = file /\ Check(p) = "open"
        /\ pc'[p] \in {"read_salt", "ended", "loop"}
    BY <1>8, <1>a DEF OpenRead, Goto, Refuse, Check
  <2>2. CASE pc'[p] = "read_salt"
    <3>1. Check(p)' = "open"
      BY <2>2 DEF Check
    <3> QED
      BY <1>1, <2>1, <3>1
  <2>3. CASE pc'[p] \in {"ended", "loop"}
    <3>1. Check(p)' = "none"
      BY <2>3 DEF Check
    <3> QED
      BY <1>3, <2>1, <3>1
  <2> QED
    BY <2>1, <2>2, <2>3
<1>9. CASE ReadSalt(p)
  <2>1. /\ typed' = typed /\ file' = file /\ Check(p) = "open"
        /\ pc'[p] = "read_hash" /\ salt'[p] = Piece(file)
        /\ buffer'[p] = Rest(file)
    BY <1>9, <1>a DEF ReadSalt, Goto, Check
  <2>2. CASE Rest(file) = <<>>
    <3>1. Check(p)' = "open"
      BY <2>1, <2>2 DEF Check
    <3> QED
      BY <1>1, <2>1, <3>1
  <2>3. CASE Rest(file) # <<>>
    <3>1. Check(p)' = IF Rest(file)[1] = hash_password(Piece(file), typed[p])
                      THEN "right" ELSE "wrong"
      BY <2>1, <2>3 DEF Check, hash_password
    <3>2. /\ Len(file) = 2 /\ file = <<file[1], Rest(file)[1]>>
          /\ Piece(file) = file[1]
      <4>1. file # <<>>
        BY <1>a, <2>3, PieceFacts
      <4> QED
        BY <1>a, <2>3, <4>1, PieceFacts
    <3>3. file[2] = Rest(file)[1]
      BY <3>2
    <3>4. ASSUME Rest(file)[1] = hash_password(Piece(file), typed[p])
          PROVE  Stored # NoPassword /\ typed[p] = Stored
      <4>1. file[2].salt = file[1] /\ file[2].passwd = typed[p]
        BY <3>2, <3>3, <3>4 DEF hash_password
      <4>2. Stored = typed[p]
        BY <3>2, <4>1 DEF Stored
      <4>3. typed[p] \in Passwords
        BY <1>9 DEF ReadSalt, IInv, OwnInv, Own, ReadPcs
      <4> QED
        BY <4>2, <4>3, NoPasswordAssumption
    <3> QED
      BY <1>4, <2>1, <3>1, <3>4
  <2> QED
    BY <2>2, <2>3
<1>10. CASE ReadHash(p)
  <2>1. /\ typed' = typed /\ file' = file /\ salt' = salt
        /\ pc[p] = "read_hash" /\ hash'[p] = HashRead(p)
        /\ pc'[p] \in {"ended", "loop", "compare"}
        /\ pc'[p] = "compare" => salt[p] # NoBytes /\ HashRead(p) # NoBytes
    BY <1>10, <1>a DEF ReadHash, Goto, Refuse
  <2>2. CASE pc'[p] \in {"ended", "loop"}
    <3>1. Check(p)' = "none"
      BY <2>2 DEF Check
    <3> QED
      BY <1>3, <2>1, <3>1
  <2>3. CASE pc'[p] = "compare"
    <3>1. Check(p)' = IF HashRead(p) = hash_password(salt[p], typed[p])
                      THEN "right" ELSE "wrong"
      BY <2>1, <2>3 DEF Check, Matches, hash_password
    <3>2. CASE buffer[p] # <<>>
      <4>1. HashRead(p) = buffer[p][1]
        BY <3>2 DEF HashRead
      <4>2. Check(p) = Check(p)'
        <5>1. Check(p) = IF buffer[p][1] = hash_password(salt[p], typed[p])
                         THEN "right" ELSE "wrong"
          BY <2>1, <3>2 DEF Check
        <5> QED
          BY <3>1, <4>1, <5>1
      <4> QED
        BY <1>1, <2>1, <4>2
    <3>3. CASE buffer[p] = <<>>
      <4>1. Check(p) = "open"
        BY <2>1, <3>3 DEF Check
      <4>2. Len(file) = 2 /\ HashRead(p) = file[2]
        BY <1>a, <2>1, <2>3, <3>3, FileFacts DEF HashRead
      <4>3. file[2].salt # salt[p]
        BY <2>1, <3>3, <4>2 DEF IInv, TornInv, Torn
      <4>4. HashRead(p) # hash_password(salt[p], typed[p])
        BY <4>2, <4>3 DEF hash_password
      <4>5. Check(p)' = "wrong"
        BY <3>1, <4>4
      <4> QED
        BY <1>4, <2>1, <4>1, <4>5
    <3> QED
      BY <3>2, <3>3
  <2> QED
    BY <2>1, <2>2, <2>3
<1>11. CASE Compare(p)
  <2>1. /\ typed' = typed /\ file' = file /\ pc[p] = "compare"
        /\ \/ pc'[p] \in {"ended", "loop"}
           \/ pc'[p] \in {"lock", "opened"} /\ Matches(p)
    BY <1>11, <1>a DEF Compare, Goto, Refuse
  <2>2. CASE pc'[p] \in {"ended", "loop"}
    <3>1. Check(p)' = "none"
      BY <2>2 DEF Check
    <3> QED
      BY <1>3, <2>1, <3>1
  <2>3. CASE pc'[p] \in {"lock", "opened"} /\ Matches(p)
    <3>1. Check(p) = "right" /\ Check(p)' = "accepted"
      BY <2>1, <2>3 DEF Check
    <3> QED
      BY <1>5, <2>1, <3>1
  <2> QED
    BY <2>1, <2>2, <2>3
<1>12. CASE Lock(p) \/ Crash(p)
  <2>1. typed' = typed /\ file' = file /\ pc'[p] \in {"loop", "ended"}
    BY <1>12, <1>a DEF Lock, Crash, Goto, bytesVars
  <2>2. Check(p)' = "none"
    BY <2>1 DEF Check
  <2> QED
    BY <1>3, <2>1, <2>2
<1>13. CASE Restart(p)
  <2>1. /\ typed' = [typed EXCEPT ![p] = NoPassword] /\ file' = file
        /\ pc'[p] = "find"
    BY <1>13, <1>a DEF Restart
  <2>2. Check(p)' = "none"
    BY <2>1 DEF Check
  <2> QED
    BY <1>2, <2>1, <2>2
<1> QED
  BY <1>6, <1>7, <1>8, <1>9, <1>10, <1>11, <1>12, <1>13
  DEF Step, set_passwd, chk_passwd

(* An accepted answer was the password of the file at one moment of the    *)
(* check, however the reads and writes of the processes interleave.        *)
THEOREM Refinement == Spec => ImplementsStore
<1>1. IInv /\ IInv' /\ [Next]_vars => [Store!Next]_(Store!storeVars)
  <2> SUFFICES ASSUME IInv, IInv', [Next]_vars
               PROVE  [Store!Next]_(Store!storeVars)
    OBVIOUS
  <2>1. CASE UNCHANGED vars
    BY <2>1 DEF vars, flowVars, bytesVars, lockVars, Store!storeVars, Stored,
                Check, Matches, hash_password
  <2> QED
    BY <2>1, StoreStep DEF Next
<1> QED
  BY <1>1, StoreInit, Invariance, PTL
  DEF Spec, ImplementsStore, Store!Spec
=============================================================================
