---------------------------- MODULE PasswordFile ----------------------------
(***************************************************************************)
(* The password file of passwd.c and the vtlock processes that share it,   *)
(* call by call: chk_passwd_set, set_passwd and chk_passwd as actual_main  *)
(* makes them, with the bytes read, hashed, written and freed.  The file   *)
(* is a sequence of pieces of 64 bytes, a salt and then a hash; another    *)
(* process may run between any two system calls, every call that can fail  *)
(* may fail, and a process may be killed anywhere and vtlock run again.    *)
(***************************************************************************)
EXTENDS Naturals, Sequences

CONSTANTS
    Procs,        \* vtlock processes, one for each terminal
    Nobody,       \* who wrote the file found at the beginning
    Passwords,    \* what can be typed at a password prompt
    NoPassword,   \* keyboard_ask_passwd gave no password
    NoBytes,      \* bytes_empty()
    MaxSessions   \* bound: runs of vtlock in each terminal

ASSUME NobodyAssumption == Nobody \notin Procs
ASSUME NoPasswordAssumption == NoPassword \notin Passwords
ASSUME MaxSessionsAssumption == MaxSessions \in Nat \ {0}

VARIABLES
    file,       \* the pieces of the password file
    pc,         \* the next call of each process
    caller,     \* which chk_passwd: before the lock or to unlock
    session,    \* runs begun by each process
    typed,      \* local passwd
    salt,       \* local salt
    hash,       \* local hash
    buffer,     \* what the FILE has read ahead of bytes_file_read
    heap,       \* what each process has allocated and not freed: its
                \* byte strings and the FILE objects that fopen gave it
    confirmed,  \* history: the password confirmed before locking
    late,       \* history: confirmed while another process was setting one
    torn,       \* history: a write(2) wrote the salt and no hash
    misjudged   \* history: chk_passwd_set could not open a good file

flowVars  == <<pc, caller, session>>
bytesVars == <<typed, salt, hash, buffer, heap>>
lockVars  == <<confirmed, late>>
vars == <<file, flowVars, bytesVars, lockVars, torn, misjudged>>

-----------------------------------------------------------------------------
(* Random salts never repeat; two hashes are equal when what was hashed is.*)
Salts == (Procs \cup {Nobody}) \X (0 .. MaxSessions)
hash_password(s, pw) == [salt |-> s, passwd |-> pw]
Hashes == [salt : Salts, passwd : Passwords]

ASSUME NoBytesAssumption == NoBytes \notin Salts \cup Hashes

Whole(s, pw) == <<s, hash_password(s, pw)>>
WholeFiles   == {Whole(s, pw) : s \in Salts, pw \in Passwords}

(* The password whose salt and hash the file holds.                        *)
Stored == IF Len(file) = 2 /\ file[2].salt = file[1] THEN file[2].passwd
                                                     ELSE NoPassword

SetPcs   == {"new", "random", "sha512", "open_w", "write"}
ReadPcs  == {"open_r", "read_salt", "read_hash", "compare"}
EndPcs   == {"ended", "opened"}
Pcs      == {"find", "recheck", "ask", "lock", "loop"} \cup SetPcs
            \cup ReadPcs \cup EndPcs

(* A FILE is "file" while a local variable points to it, then "lost".      *)
Objects == {"passwd", "salt", "hash", "file", "urandom", "lost"}

Locked(p) == caller[p] = "unlock" /\ pc[p] \notin EndPcs \cup {"lock"}

Init ==
    /\ file \in {<<>>} \cup {Whole(<<Nobody, 0>>, pw) : pw \in Passwords}
    /\ pc = [p \in Procs |-> "find"]
    /\ caller = [p \in Procs |-> "confirm"]
    /\ session = [p \in Procs |-> 1]
    /\ typed = [p \in Procs |-> NoPassword]
    /\ salt = [p \in Procs |-> NoBytes]
    /\ hash = [p \in Procs |-> NoBytes]
    /\ buffer = [p \in Procs |-> <<>>]
    /\ heap = [p \in Procs |-> {}]
    /\ confirmed = [p \in Procs |-> NoPassword]
    /\ late = [p \in Procs |-> FALSE]
    /\ torn = FALSE /\ misjudged = FALSE

-----------------------------------------------------------------------------
Goto(p, l) ==
    /\ pc' = [pc EXCEPT ![p] = l]
    /\ UNCHANGED <<caller, session>>

Malloc(p, new) == heap' = [heap EXCEPT ![p] = @ \cup new]
Free(p, old)   == heap' = [heap EXCEPT ![p] = @ \ old]

(* chk_passwd_set: exactly SALT_SIZE + HASH_SIZE bytes, if it opens.       *)
chk_passwd_set == Len(file) = 2

Find(p) ==
    /\ pc[p] = "find"
    /\ \/ chk_passwd_set /\ Goto(p, "ask") /\ UNCHANGED misjudged
       \/ Goto(p, "new") /\ misjudged' = (misjudged \/ chk_passwd_set)
    /\ UNCHANGED <<file, bytesVars, lockVars, torn>>

Recheck(p) ==
    /\ pc[p] = "recheck"
    /\ \/ chk_passwd_set /\ Goto(p, "ask")
       \/ Goto(p, "ended")                                         \* exit 4
    /\ UNCHANGED <<file, bytesVars, lockVars, torn, misjudged>>

-----------------------------------------------------------------------------
(* set_passwd.                                                             *)

AskNew(p) ==
    /\ pc[p] = "new"
    /\ \/ /\ \E pw \in Passwords : typed' = [typed EXCEPT ![p] = pw]
          /\ Malloc(p, {"passwd"})
          /\ Goto(p, "random")
       \/ Goto(p, "ended") /\ UNCHANGED <<typed, heap>>            \* exit 3
    /\ UNCHANGED <<file, salt, hash, buffer, lockVars, torn, misjudged>>

(* /dev/urandom may be missing or end early; it is closed in that case     *)
(* only.                                                                   *)
bytes_from_random(p) ==
    /\ pc[p] = "random"
    /\ \/ /\ salt' = [salt EXCEPT ![p] = <<p, session[p]>>]
          /\ Malloc(p, {"salt", "urandom"})
          /\ Goto(p, "sha512")
       \/ Free(p, {"passwd"}) /\ Goto(p, "ended") /\ UNCHANGED salt
    /\ UNCHANGED <<file, typed, hash, buffer, lockVars, torn, misjudged>>

(* Mutant: the salt is not freed when the hash fails.                      *)
HashNew_leaks(p) ==
    /\ pc[p] = "sha512"
    /\ \/ /\ hash' = [hash EXCEPT ![p] = hash_password(salt[p], typed[p])]
          /\ heap' = [heap EXCEPT ![p] = (@ \ {"passwd"}) \cup {"hash"}]
          /\ Goto(p, "open_w")
       \/ Free(p, {"passwd"}) /\ Goto(p, "ended") /\ UNCHANGED hash
    /\ UNCHANGED <<file, typed, salt, buffer, lockVars, torn, misjudged>>

HashNew(p) ==
    /\ pc[p] = "sha512"
    /\ \/ /\ hash' = [hash EXCEPT ![p] = hash_password(salt[p], typed[p])]
          /\ heap' = [heap EXCEPT ![p] = (@ \ {"passwd"}) \cup {"hash"}]
          /\ Goto(p, "open_w")
       \/ Free(p, {"passwd", "salt"}) /\ Goto(p, "ended") /\ UNCHANGED hash
    /\ UNCHANGED <<file, typed, salt, buffer, lockVars, torn, misjudged>>

(* fopen(passwd_file, "wb") truncates.                                     *)
OpenWrite(p) ==
    /\ pc[p] = "open_w"
    /\ \/ file' = <<>> /\ Malloc(p, {"file"}) /\ Goto(p, "write")
       \/ Free(p, {"salt", "hash"}) /\ Goto(p, "ended") /\ UNCHANGED file
    /\ UNCHANGED <<typed, salt, hash, buffer, lockVars, torn, misjudged>>

(* Both fwrites stay in the FILE's buffer; fclose writes it at offset 0,   *)
(* over what another process has written since.  A full disk takes all,    *)
(* a part or nothing, which nobody checks.                                 *)
Over(bytes) == bytes \o SubSeq(file, Len(bytes) + 1, Len(file))

(* Mutant: the file is open for appending.                                 *)
Write_appends(p) ==
    /\ pc[p] = "write"
    /\ \/ file' = file \o <<salt[p], hash[p]>> /\ UNCHANGED torn
       \/ UNCHANGED <<file, torn>>
    /\ Free(p, {"salt", "hash", "file"})
    /\ Goto(p, "recheck")
    /\ UNCHANGED <<typed, salt, hash, buffer, lockVars, misjudged>>

Write(p) ==
    /\ pc[p] = "write"
    /\ \/ file' = Over(<<salt[p], hash[p]>>) /\ UNCHANGED torn
       \/ file' = Over(<<salt[p]>>) /\ torn' = TRUE
       \/ UNCHANGED <<file, torn>>
    /\ Free(p, {"salt", "hash", "file"})
    /\ Goto(p, "recheck")
    /\ UNCHANGED <<typed, salt, hash, buffer, lockVars, misjudged>>

-----------------------------------------------------------------------------
(* chk_passwd.                                                             *)

(* It returns false: exit 5, or an incorrect password and the clock again. *)
Refuse(p) == Goto(p, IF caller[p] = "confirm" THEN "ended" ELSE "loop")

Ask(p) ==
    /\ pc[p] = "ask"
    /\ \/ /\ \E pw \in Passwords : typed' = [typed EXCEPT ![p] = pw]
          /\ Malloc(p, {"passwd"})
          /\ Goto(p, "open_r")
       \/ Refuse(p) /\ UNCHANGED <<typed, heap>>
    /\ UNCHANGED <<file, salt, hash, buffer, lockVars, torn, misjudged>>

OpenRead(p) ==
    /\ pc[p] = "open_r"
    /\ \/ Malloc(p, {"file"}) /\ Goto(p, "read_salt")
       \/ Free(p, {"passwd"}) /\ Refuse(p)
    /\ UNCHANGED <<file, typed, salt, hash, buffer, lockVars, torn, misjudged>>

(* The first bytes_file_read fills the FILE's buffer with the whole file.  *)
Piece(seq) == IF seq = <<>> THEN NoBytes ELSE Head(seq)
Rest(seq)  == IF seq = <<>> THEN <<>> ELSE Tail(seq)
Read(name, piece) == IF piece = NoBytes THEN {} ELSE {name}

(* Mutant: the second read begins at the start of the buffer again.        *)
ReadSalt_rewinds(p) ==
    /\ pc[p] = "read_salt"
    /\ salt' = [salt EXCEPT ![p] = Piece(file)]
    /\ buffer' = [buffer EXCEPT ![p] = file]
    /\ Malloc(p, Read("salt", Piece(file)))
    /\ UNCHANGED late
    /\ Goto(p, "read_hash")
    /\ UNCHANGED <<file, typed, hash, confirmed, torn, misjudged>>

ReadSalt(p) ==
    /\ pc[p] = "read_salt"
    /\ salt' = [salt EXCEPT ![p] = Piece(file)]
    /\ buffer' = [buffer EXCEPT ![p] = Rest(file)]
    /\ Malloc(p, Read("salt", Piece(file)))
    /\ late' = IF caller[p] = "unlock" THEN late
               ELSE [late EXCEPT ![p] = \E q \in Procs \ {p} : pc[q] \in SetPcs]
    /\ Goto(p, "read_hash")
    /\ UNCHANGED <<file, typed, hash, confirmed, torn, misjudged>>

(* The second goes on in the buffer, or in the file behind a salt that was *)
(* all there was; the end of the file, once met, stays.                    *)
HashRead(p) ==
    IF buffer[p] # <<>> THEN buffer[p][1]
    ELSE IF salt[p] # NoBytes /\ Len(file) >= 2 THEN file[2] ELSE NoBytes

(* Too few bytes, and chk_passwd returns without fclose.                   *)
ReadHash(p) ==
    /\ pc[p] = "read_hash"
    /\ hash' = [hash EXCEPT ![p] = HashRead(p)]
    /\ buffer' = [buffer EXCEPT ![p] = <<>>]
    /\ \/ /\ salt[p] = NoBytes \/ HashRead(p) = NoBytes
          /\ heap' = [heap EXCEPT ![p] =
                        (@ \ {"passwd", "salt", "file"}) \cup {"lost"}]
          /\ Refuse(p)
       \/ /\ salt[p] # NoBytes /\ HashRead(p) # NoBytes
          /\ heap' = [heap EXCEPT ![p] = (@ \ {"file"}) \cup {"hash"}]
          /\ Goto(p, "compare")
    /\ UNCHANGED <<file, typed, salt, lockVars, torn, misjudged>>

(* bytes_eq: the hash of a failed bytes_sha512 is empty and equals none.   *)
Matches(p) == hash[p] = hash_password(salt[p], typed[p])

(* Mutant: a failed hash compares as equal.                                *)
Compare_failed_equal(p) ==
    /\ pc[p] = "compare"
    /\ \/ /\ IF caller[p] = "confirm"
             THEN /\ Goto(p, "lock")
                  /\ confirmed' = [confirmed EXCEPT ![p] = typed[p]]
             ELSE Goto(p, "opened") /\ UNCHANGED confirmed
       \/ Refuse(p) /\ UNCHANGED confirmed
    /\ Free(p, {"passwd", "salt", "hash"})
    /\ UNCHANGED <<file, typed, salt, hash, buffer, late, torn, misjudged>>

Compare(p) ==
    /\ pc[p] = "compare"
    /\ \/ /\ Matches(p)
          /\ IF caller[p] = "confirm"
             THEN /\ Goto(p, "lock")
                  /\ confirmed' = [confirmed EXCEPT ![p] = typed[p]]
             ELSE Goto(p, "opened") /\ UNCHANGED confirmed
       \/ Refuse(p) /\ UNCHANGED confirmed
    /\ Free(p, {"passwd", "salt", "hash"})
    /\ UNCHANGED <<file, typed, salt, hash, buffer, late, torn, misjudged>>

-----------------------------------------------------------------------------
(* The rest of actual_main: lock or bail out, and the loop's own check.    *)
Lock(p) ==
    /\ pc[p] = "lock"
    /\ \/ /\ pc' = [pc EXCEPT ![p] = "loop"]
          /\ caller' = [caller EXCEPT ![p] = "unlock"]
          /\ UNCHANGED session
       \/ Goto(p, "ended")                                    \* exits 6, 7
    /\ UNCHANGED <<file, bytesVars, lockVars, torn, misjudged>>

CheckFile(p) ==
    /\ pc[p] = "loop"
    /\ \/ chk_passwd_set /\ Goto(p, "ask")
       \/ Goto(p, "ended")                                         \* exit 8
    /\ UNCHANGED <<file, bytesVars, lockVars, torn, misjudged>>

(* Killed: what was in memory, and in the buffers of its FILEs, is gone.   *)
Crash(p) ==
    /\ pc[p] \notin EndPcs
    /\ Goto(p, "ended")
    /\ heap' = [heap EXCEPT ![p] = {}]
    /\ UNCHANGED <<file, typed, salt, hash, buffer, lockVars, torn, misjudged>>

Restart(p) ==
    /\ pc[p] \in EndPcs
    /\ session[p] < MaxSessions
    /\ session' = [session EXCEPT ![p] = @ + 1]
    /\ pc' = [pc EXCEPT ![p] = "find"]
    /\ caller' = [caller EXCEPT ![p] = "confirm"]
    /\ typed' = [typed EXCEPT ![p] = NoPassword]
    /\ salt' = [salt EXCEPT ![p] = NoBytes]
    /\ hash' = [hash EXCEPT ![p] = NoBytes]
    /\ buffer' = [buffer EXCEPT ![p] = <<>>]
    /\ heap' = [heap EXCEPT ![p] = {}]
    /\ confirmed' = [confirmed EXCEPT ![p] = NoPassword]
    /\ late' = [late EXCEPT ![p] = FALSE]
    /\ UNCHANGED <<file, torn, misjudged>>

set_passwd(p) == AskNew(p) \/ bytes_from_random(p) \/ HashNew(p)
                 \/ OpenWrite(p) \/ Write(p)
chk_passwd(p) == Ask(p) \/ OpenRead(p) \/ ReadSalt(p) \/ ReadHash(p)
                 \/ Compare(p)

Step(p) == Find(p) \/ set_passwd(p) \/ Recheck(p) \/ chk_passwd(p) \/ Lock(p)
           \/ CheckFile(p)

Next == \E p \in Procs : Step(p) \/ Crash(p) \/ Restart(p)

Spec == Init /\ [][Next]_vars

-----------------------------------------------------------------------------
Files   == {<<>>} \cup {<<s>> : s \in Salts} \cup (Salts \X Hashes)
Buffers == {<<>>} \cup {<<h>> : h \in Hashes}

(* Type invariant.                                                         *)
TypeOK ==
    /\ file \in Files
    /\ pc \in [Procs -> Pcs]
    /\ caller \in [Procs -> {"confirm", "unlock"}]
    /\ session \in [Procs -> 1 .. MaxSessions]
    /\ typed \in [Procs -> Passwords \cup {NoPassword}]
    /\ salt \in [Procs -> Salts \cup {NoBytes}]
    /\ hash \in [Procs -> Hashes \cup {NoBytes}]
    /\ buffer \in [Procs -> Buffers]
    /\ heap \in [Procs -> SUBSET Objects]
    /\ confirmed \in [Procs -> Passwords \cup {NoPassword}]
    /\ late \in [Procs -> BOOLEAN]
    /\ torn \in BOOLEAN /\ misjudged \in BOOLEAN

(* However many processes set a password at once, and wherever they are    *)
(* killed, the file is empty or holds the salt and the hash of one of      *)
(* them, never a mixture, unless a full disk took a salt without its hash  *)
(* (set_passwd writes both with one write at offset 0).                    *)
WholeFile == ~torn => file \in {<<>>} \cup WholeFiles

(* "To stop you from locking yourself out": a locked terminal still has    *)
(* the password that was confirmed in the file, unless another vtlock was  *)
(* in the middle of set_passwd at the confirmation, or could not open a    *)
(* good file and so set a new password.                                    *)
ConfirmedKept ==
    \A p \in Procs :
        Locked(p) /\ ~late[p] /\ ~misjudged => Stored = confirmed[p]

(* Whichever call fails, and over any number of prompts, set_passwd and    *)
(* chk_passwd leave no more behind than the FILEs they do not close:       *)
(* /dev/urandom after a salt was read (hash.c 45) and the password file    *)
(* after a read that came up short (passwd.c 42-47).  Every byte string,   *)
(* and every FILE on the other paths, is freed.                            *)
LeaksOnlyFiles ==
    \A p \in Procs :
        pc[p] \notin SetPcs \cup ReadPcs => heap[p] \subseteq {"urandom", "lost"}

(* PasswordStore: the look at the file is the read that brings the hash    *)
(* into memory.                                                            *)
Check(p) ==
    CASE pc[p] \in {"open_r", "read_salt"} -> "open"
      [] pc[p] = "read_hash" ->
             IF buffer[p] = <<>> THEN "open"
             ELSE IF buffer[p][1] = hash_password(salt[p], typed[p])
                  THEN "right" ELSE "wrong"
      [] pc[p] = "compare" -> IF Matches(p) THEN "right" ELSE "wrong"
      [] pc[p] \in {"lock", "opened"} -> "accepted"
      [] OTHER -> "none"

Store == INSTANCE PasswordStore WITH
    stored <- Stored,
    answer <- typed,
    check <- [p \in Procs |-> Check(p)]

(* Although the salt and the hash are read by two calls, and other         *)
(* processes may truncate, rewrite or half write the file between them, an *)
(* accepted answer was the file's password at one moment of the check.     *)
ImplementsStore == Store!Spec
=============================================================================
