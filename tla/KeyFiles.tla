------------------------------ MODULE KeyFiles ------------------------------
(***************************************************************************)
(* ssh-keygen's work on key files (bin/ssh-keygen.rs, key/): making a key  *)
(* pair, making the host keys (-A), changing the passphrase (-p) or the    *)
(* comment (-c) of a key, and the commands that only read one (-y, -l,     *)
(* -e).  Several ssh-keygen processes share the disk: every step that      *)
(* another process can see between two others is an action, any of them    *)
(* can fail or be the last one before the process is killed.               *)
(*                                                                         *)
(* A key is a number; a private key file holds it with its comment, the    *)
(* passphrase that opens it and the format it is stored in.  Passphrase 0  *)
(* is "none" and comment 0 the empty one; a file that was opened for       *)
(* writing and not completely written is `cut'.  The temporary files have  *)
(* names of their own (pid, random number), so nobody else sees them: what *)
(* such a file holds is the process's `made'.                              *)
(***************************************************************************)
EXTENDS Integers, Sequences, FiniteSets, TLAPS

CONSTANTS Procs,      \* ssh-keygen processes
          Paths,      \* the key files
          Hosts,      \* the sequence of host key files of -A, all in Paths
          Jobs,       \* the command lines
          Disks,      \* the initial contents [key, pub]
          Passes,     \* passphrases a user may type, 0 among them
          MaxRuns, MaxFaults

VARIABLES key, pub,   \* path -> private key file, public key file
          proc,       \* process -> what it is doing
          fresh,      \* the next key to be generated
          runs, faults,
          typed,      \* passphrases given on a command line or typed twice
          asked,      \* files some process was told to make, or to make anew
          shared      \* two processes have run at the same time

vars == <<key, pub, proc, fresh, runs, faults, typed, asked, shared>>

None == [there |-> FALSE, whole |-> FALSE, id |-> 0, type |-> "", comment |-> 0,
         pass |-> 0, form |-> ""]
Cut == [None EXCEPT !.there = TRUE]

Private(id, type, comment, pass, form) ==
    [there |-> TRUE, whole |-> TRUE, id |-> id, type |-> type,
     comment |-> comment, pass |-> pass, form |-> form]

\* The line of the .pub file: the key and its comment.
to_authorized_keys_line(sk) == [sk EXCEPT !.pass = 0, !.form = "line"]

Idle == [pc |-> "idle", job |-> CHOOSE j \in Jobs : TRUE, made |-> None, at |-> 0,
         alone |-> TRUE, ret |-> 0, same |-> FALSE, printed |-> 0]

Init == /\ \E d \in Disks : key = d.key /\ pub = d.pub
        /\ proc = [p \in Procs |-> Idle]
        /\ fresh = 1 + Cardinality(Paths) /\ runs = 0 /\ faults = 0
        /\ typed = {key[n].pass : n \in Paths}
        /\ asked = {} /\ shared = FALSE

-----------------------------------------------------------------------------
(* Loading and storing a key.                                              *)

\* A private key file opens with the passphrase it was stored with; one
\* without a passphrase opens with any.
parse_pem(file, pass) == file.whole /\ file.pass \in {0, pass}

\* Only the OpenSSH format keeps the comment, and shows the public key of an
\* encrypted file.
Loaded(file) == [file EXCEPT !.comment = IF file.form = "new" THEN @ ELSE 0]
public_key_from_pem(file) == file.whole /\ (file.form = "new" \/ file.pass = 0)

\* Ed25519 keys have no PEM form.
encode_private(sk, form) == ~(form = "pem" /\ sk.type = "ed25519")

\* The passphrases a command may try: the one of the command line if it is
\* not empty, else the file as it is and then what the user types (without a
\* terminal the end of the input, which is the empty passphrase).
Tries(j, given) ==
    IF given # 0 THEN {given} ELSE IF j.terminal THEN Passes ELSE {0}

\* A new passphrase: the one of the command line, else the one typed twice
\* (the loop of read_new_passphrase_confirmed goes on until both agree), else
\* none when there is nobody to ask.
NewPass(j) == IF j.newSet THEN {j.new} ELSE IF j.terminal THEN Passes ELSE {0}

Now(p) == proc[p].job
Goto(p, pc) == proc' = [proc EXCEPT ![p].pc = pc]
Exit(p, code) == proc' = [proc EXCEPT ![p].pc = "done", ![p].ret = code]
Fault == faults < MaxFaults /\ faults' = faults + 1

Same == UNCHANGED <<fresh, runs, faults, typed, asked, shared>>
Disk == UNCHANGED <<key, pub>>

-----------------------------------------------------------------------------
(* ssh-keygen without an operation: a new key pair.                        *)

\* An existing file is only replaced after a "y".
run_generate(p) ==
    LET n == Now(p).path IN
    /\ proc[p].pc = "generate"
    /\ \/ /\ ~key[n].there /\ Goto(p, "make") /\ asked' = asked \cup {n}
       \/ /\ key[n].there /\ Exit(p, 1) /\ asked' = asked
       \/ /\ key[n].there /\ Goto(p, "remove") /\ asked' = asked \cup {n}
    /\ Disk /\ UNCHANGED <<fresh, runs, faults, typed, shared>>

\* Both old files are removed at once; that a removal fails is not noticed.
RemoveOld(p) ==
    LET n == Now(p).path IN
    /\ proc[p].pc = "remove" /\ Goto(p, "removepub")
    /\ \/ key' = [key EXCEPT ![n] = None] /\ faults' = faults
       \/ Fault /\ key' = key
    /\ UNCHANGED <<pub, fresh, runs, typed, asked, shared>>
RemoveOldPub(p) ==
    LET n == Now(p).path IN
    /\ proc[p].pc = "removepub" /\ Goto(p, "make")
    /\ \/ pub' = [pub EXCEPT ![n] = None] /\ faults' = faults
       \/ Fault /\ pub' = pub
    /\ UNCHANGED <<key, fresh, runs, typed, asked, shared>>

\* The key, its passphrase and its encoding, all before the file is opened.
Generated(p) ==
    LET j == Now(p) IN
    /\ proc[p].pc = "make"
    /\ \/ /\ j.type = "unknown" /\ Exit(p, 1) /\ typed' = typed /\ fresh' = fresh
       \/ /\ j.type # "unknown" /\ fresh' = fresh + 1
          /\ \E pass \in NewPass(j) :
                LET sk == Private(fresh, j.type, j.comment, pass, j.form) IN
                /\ typed' = typed \cup {pass}
                /\ IF encode_private(sk, j.form)
                   THEN proc' = [proc EXCEPT ![p].pc = "create", ![p].made = sk]
                   ELSE Exit(p, 3)
    /\ Disk /\ UNCHANGED <<runs, faults, asked, shared>>

\* The private key is only ever created, never written over an existing file.
write_private(p) ==
    LET n == Now(p).path IN
    /\ proc[p].pc = "create"
    /\ \/ key[n].there /\ Exit(p, 1) /\ key' = key /\ faults' = faults
       \/ /\ ~key[n].there /\ faults' = faults /\ Goto(p, "fill")
          /\ key' = [key EXCEPT ![n] = [Cut EXCEPT !.id = proc[p].made.id]]
       \/ Fault /\ Exit(p, 1) /\ key' = key
    /\ UNCHANGED <<pub, fresh, runs, typed, asked, shared>>

\* The bytes go to the file that was created, wherever its name points by now:
\* if another process has removed or replaced it, nobody sees them.
Filled(p) ==
    LET n == Now(p).path IN
    /\ proc[p].pc = "fill"
    /\ \/ /\ key' = [key EXCEPT ![n] = IF @.id = proc[p].made.id THEN proc[p].made ELSE @]
          /\ Goto(p, "openpub") /\ faults' = faults
       \/ Fault /\ Exit(p, 1) /\ key' = key
    /\ UNCHANGED <<pub, fresh, runs, typed, asked, shared>>

\* The .pub file is truncated and written, after -c as well; of two processes
\* that have it open the last one's line is taken to stay.
write_public(p) ==
    LET n == Now(p).path IN
    /\ proc[p].pc = "openpub"
    /\ \/ pub' = [pub EXCEPT ![n] = Cut] /\ Goto(p, "fillpub") /\ faults' = faults
       \/ Fault /\ Exit(p, IF Now(p).op = "comment" THEN 255 ELSE 1) /\ pub' = pub
    /\ UNCHANGED <<key, fresh, runs, typed, asked, shared>>
FilledPub(p) ==
    LET n == Now(p).path IN
    /\ proc[p].pc = "fillpub"
    /\ \/ /\ pub' = [pub EXCEPT ![n] = IF @.there THEN to_authorized_keys_line(proc[p].made)
                                       ELSE @]
          /\ Exit(p, 0) /\ faults' = faults
       \/ Fault /\ Exit(p, IF Now(p).op = "comment" THEN 255 ELSE 1) /\ pub' = pub
    /\ UNCHANGED <<key, fresh, runs, typed, asked, shared>>

-----------------------------------------------------------------------------
(* ssh-keygen -A: the host keys that are not there yet.                    *)

\* The next missing file; its key is made and both halves written to
\* temporary files.
run_host_keys(p) ==
    LET i == proc[p].at IN
    /\ proc[p].pc = "hosts"
    /\ \/ /\ i > Len(Hosts) /\ Exit(p, 0) /\ fresh' = fresh /\ faults' = faults
       \/ /\ i <= Len(Hosts) /\ key[Hosts[i]].there
          /\ proc' = [proc EXCEPT ![p].at = i + 1] /\ fresh' = fresh /\ faults' = faults
       \/ /\ i <= Len(Hosts) /\ ~key[Hosts[i]].there /\ fresh' = fresh + 1
          /\ proc' = [proc EXCEPT ![p].pc = "renamepub",
                                  ![p].made = Private(fresh, "rsa", 0, 0, "new")]
          /\ faults' = faults
       \/ /\ i <= Len(Hosts) /\ ~key[Hosts[i]].there /\ Fault /\ Exit(p, 1)
          /\ fresh' = fresh
    /\ Disk /\ UNCHANGED <<runs, typed, asked, shared>>

\* The public half is moved into place first, so that a key whose file exists
\* has its .pub beside it.
RenamePub(p) ==
    LET n == Hosts[proc[p].at] IN
    /\ proc[p].pc = "renamepub"
    /\ \/ /\ pub' = [pub EXCEPT ![n] = to_authorized_keys_line(proc[p].made)]
          /\ Goto(p, "renamekey") /\ faults' = faults
       \/ Fault /\ Exit(p, 1) /\ pub' = pub
    /\ UNCHANGED <<key, fresh, runs, typed, asked, shared>>
RenameKey(p) ==
    LET n == Hosts[proc[p].at] IN
    /\ proc[p].pc = "renamekey"
    /\ \/ /\ key' = [key EXCEPT ![n] = proc[p].made]
          /\ proc' = [proc EXCEPT ![p].pc = "hosts", ![p].at = @ + 1]
          /\ faults' = faults
       \/ Fault /\ Exit(p, 1) /\ key' = key
    /\ UNCHANGED <<pub, fresh, runs, typed, asked, shared>>

-----------------------------------------------------------------------------
(* -p and -c: an existing key is stored again.                             *)

run_change_passphrase(p) ==
    LET j == Now(p)  file == key[j.path] IN
    /\ proc[p].pc = "passphrase"
    /\ \E try \in Tries(j, j.old) :
          IF ~parse_pem(file, try) THEN Exit(p, 3) /\ typed' = typed
          ELSE \E pass \in NewPass(j) :
                  /\ typed' = typed \cup {pass}
                  /\ IF encode_private(file, j.form)
                     THEN proc' = [proc EXCEPT ![p].pc = "replace",
                            ![p].made = [Loaded(file) EXCEPT !.pass = pass, !.form = j.form]]
                     ELSE Exit(p, 3)
    /\ Disk /\ UNCHANGED <<fresh, runs, faults, asked, shared>>

\* The comment that is asked for, unless the key has it already; the key keeps
\* its passphrase.
run_change_comment(p) ==
    LET j == Now(p)  file == key[j.path]
        sk == [file EXCEPT !.comment = j.comment, !.form = j.form] IN
    /\ proc[p].pc = "comment"
    /\ \E try \in Tries(j, IF j.old # 0 THEN j.old ELSE j.new) :
          IF ~parse_pem(file, try) THEN Exit(p, 255)
          ELSE IF file.type # "ed25519" /\ j.form # "new" THEN Exit(p, 1)
          ELSE \/ j.terminal /\ Exit(p, 1)      \* the input ended at the question
               \/ /\ file.form = "new" /\ file.comment = j.comment
                  /\ proc' = [proc EXCEPT ![p].pc = "done", ![p].ret = 0, ![p].same = TRUE]
               \/ /\ ~(file.form = "new" /\ file.comment = j.comment)
                  /\ IF encode_private(sk, j.form)
                     THEN proc' = [proc EXCEPT ![p].pc = "replace", ![p].made = sk]
                     ELSE Exit(p, 3)
    /\ Disk /\ Same

\* Mutant of replace_private: the file itself is truncated and written.
replace_privateInPlace(p) ==
    /\ proc[p].pc = "replace" /\ Goto(p, "rename")
    /\ key' = [key EXCEPT ![Now(p).path] = Cut] /\ pub' = pub /\ Same

\* The new file is written under another name and flushed ...
replace_private(p) ==
    /\ proc[p].pc = "replace"
    /\ \/ Goto(p, "rename") /\ faults' = faults
       \/ Fault /\ Exit(p, 1)
    /\ Disk /\ UNCHANGED <<fresh, runs, typed, asked, shared>>
\* ... and only a whole one takes the place of the old.
Renamed(p) ==
    LET n == Now(p).path IN
    /\ proc[p].pc = "rename"
    /\ \/ /\ key' = [key EXCEPT ![n] = proc[p].made] /\ faults' = faults
          /\ IF Now(p).op = "comment" THEN Goto(p, "openpub") ELSE Exit(p, 0)
       \/ Fault /\ Exit(p, 1) /\ key' = key
    /\ UNCHANGED <<pub, fresh, runs, typed, asked, shared>>

-----------------------------------------------------------------------------
(* The commands that only read.                                            *)

\* -y and the private half of -e -m HEXDUMP open the private key.
run_extract_public(p) ==
    LET j == Now(p)  file == key[j.path] IN
    /\ proc[p].pc = "extract"
    /\ \E try \in Tries(j, IF j.old # 0 THEN j.old ELSE j.new) :
          IF parse_pem(file, try)
          THEN proc' = [proc EXCEPT ![p].pc = "done", ![p].ret = 0, ![p].printed = file.id]
          ELSE Exit(p, 3)
    /\ Disk /\ Same

\* -e takes a key that needs no passphrase.
run_export(p) ==
    LET file == key[Now(p).path] IN
    /\ proc[p].pc = "export"
    /\ IF parse_pem(file, 0)
       THEN proc' = [proc EXCEPT ![p].pc = "done", ![p].ret = 0, ![p].printed = file.id]
       ELSE Exit(p, 1)
    /\ Disk /\ Same

\* -l reads the private key file and then the .pub beside it, and prefers the
\* latter.
fingerprint_key(p) ==
    LET file == key[Now(p).path] IN
    /\ proc[p].pc = "fingerprint"
    /\ IF file.there THEN proc' = [proc EXCEPT ![p].pc = "fingerprintpub", ![p].made = file]
       ELSE Exit(p, 1)
    /\ Disk /\ Same
run_fingerprint(p) ==
    LET line == pub[Now(p).path]  file == proc[p].made IN
    /\ proc[p].pc = "fingerprintpub"
    /\ IF line.whole \/ public_key_from_pem(file)
       THEN proc' = [proc EXCEPT ![p].pc = "done", ![p].ret = 0,
                       ![p].printed = IF line.whole THEN line.id ELSE file.id]
       ELSE Exit(p, 1)
    /\ Disk /\ Same

-----------------------------------------------------------------------------
(* A process starts its command, ends, or is killed at any point.          *)

Running == {p \in Procs : proc[p].pc \notin {"idle", "done"}}

run(p, j) ==
    /\ proc[p].pc \in {"idle", "done"} /\ runs < MaxRuns
    /\ runs' = runs + 1 /\ shared' = (shared \/ Running # {})
    /\ typed' = IF j.newSet THEN typed \cup {j.new} ELSE typed
    /\ proc' = [q \in Procs |->
                  IF q = p THEN [Idle EXCEPT !.pc = j.op, !.job = j, !.at = 1,
                                             !.alone = (Running = {})]
                  ELSE [proc[q] EXCEPT !.alone = FALSE]]
    /\ Disk /\ UNCHANGED <<fresh, faults, asked>>

Killed(p) ==
    /\ p \in Running /\ Fault
    /\ proc' = [proc EXCEPT ![p] = Idle]
    /\ Disk /\ UNCHANGED <<fresh, runs, typed, asked, shared>>

Next == \E p \in Procs :
    \/ \E j \in Jobs : run(p, j)
    \/ run_generate(p) \/ RemoveOld(p) \/ RemoveOldPub(p) \/ Generated(p)
    \/ write_private(p) \/ Filled(p) \/ write_public(p) \/ FilledPub(p)
    \/ run_host_keys(p) \/ RenamePub(p) \/ RenameKey(p)
    \/ run_change_passphrase(p) \/ run_change_comment(p)
    \/ replace_private(p) \/ Renamed(p)
    \/ run_extract_public(p) \/ run_export(p) \/ fingerprint_key(p) \/ run_fingerprint(p)
    \/ Killed(p)

Spec == Init /\ [][Next]_vars

-----------------------------------------------------------------------------
(* A key file nobody was told to make anew never holds anything but a      *)
(* whole key that opens with a passphrase its owner knows: whichever of    *)
(* two processes storing it comes last, whatever fails and wherever one of *)
(* them is killed (replace_private's temporary file); nor does -A leave a  *)
(* half-written host key.                                                  *)
KeySurvives ==
    \A n \in Paths \ asked : key[n].there => key[n].whole /\ key[n].pass \in typed

(* Exit status 0 of a command that had the files for itself means what it  *)
(* says, also on what a killed one left behind: the key pair belongs       *)
(* together, the key has the comment and the passphrase that were asked    *)
(* for, and the key that was shown is the one in the file.  As long as     *)
(* ssh-keygen -A never ran twice at the same time, a host key stands       *)
(* beside its own .pub and no other's.                                     *)
SuccessIsPair ==
    /\ \A p \in Procs :
          LET j == proc[p].job  k == key[j.path]  l == pub[j.path] IN
          (proc[p].pc = "done" /\ proc[p].ret = 0 /\ proc[p].alone) =>
             CASE j.op = "generate" ->
                    k.whole /\ l.whole /\ k.id = l.id /\ l.comment = j.comment
                      /\ (j.newSet => k.pass = j.new)
               [] j.op = "passphrase" -> k.whole /\ (j.newSet => k.pass = j.new)
               [] j.op = "comment" ->
                    k.whole /\ k.comment = j.comment
                      /\ (proc[p].same \/ (l.whole /\ l.id = k.id /\ l.comment = j.comment))
               [] j.op = "hosts" -> \A i \in 1..Len(Hosts) : key[Hosts[i]].whole
               [] OTHER -> proc[p].printed = k.id
    /\ ~shared => \A i \in 1..Len(Hosts) :
          key[Hosts[i]].whole => pub[Hosts[i]].whole /\ pub[Hosts[i]].id = key[Hosts[i]].id
-----------------------------------------------------------------------------
(* The proof that keys survive.  A name that nobody asked to be made anew  *)
(* changes only by a rename of a whole file; Inv says why every file that  *)
(* is about to be renamed or filled is whole and opens with a passphrase   *)
(* that was typed, and that only names that were asked for are removed or  *)
(* created.                                                                *)
FileFields == {"there", "whole", "id", "type", "comment", "pass", "form"}
ProcFields == {"pc", "job", "made", "at", "alone", "ret", "same", "printed"}
Ops == {"generate", "hosts", "passphrase", "comment", "extract", "export", "fingerprint"}

ConstantsOK ==
    /\ Hosts \in Seq(Paths)
    /\ \A j \in Jobs : j.path \in Paths /\ j.op \in Ops
    /\ \A d \in Disks : DOMAIN d.key = Paths /\ \A n \in Paths :
          /\ DOMAIN d.key[n] = FileFields
          /\ IF d.key[n].there THEN d.key[n].whole ELSE ~d.key[n].whole /\ d.key[n].pass = 0

\* The processes have their fields.
Shaped ==
    /\ DOMAIN proc = Procs
    /\ \A p \in Procs : /\ DOMAIN proc[p] = ProcFields /\ DOMAIN proc[p].made = FileFields
                        /\ proc[p].at \in Nat
                        /\ proc[p].pc # "idle" => proc[p].job \in Jobs /\ proc[p].at > 0

\* Only a name that was asked for (as) may hold half a key, or one that does
\* not open with what was typed (ty); a missing one that was not asked for was
\* never there.
Sound(k, n, ty, as) ==
    /\ DOMAIN k = FileFields
    /\ k.whole => k.there
    /\ n \notin as => IF k.there THEN k.whole /\ k.pass \in ty ELSE 0 \in ty
DiskOK(files, ty, as) == DOMAIN files = Paths /\ \A n \in Paths : Sound(files[n], n, ty, as)

\* What a process is about to put into place is a whole key that opens.
Fit(pc, made, at, n, ty, as) ==
    /\ pc \in {"create", "fill", "replace", "rename"} => made.there /\ made.whole
    /\ pc \in {"replace", "rename"} => n \in as \/ made.pass \in ty
    /\ pc \in {"remove", "removepub", "make", "create", "fill"} => n \in as
    /\ pc \in {"renamepub", "renamekey"} =>
          /\ made.there /\ made.whole /\ made.pass = 0 /\ at \in 1..Len(Hosts)
          /\ Hosts[at] \in as \/ 0 \in ty
Ready(p) == Fit(proc[p].pc, proc[p].made, proc[p].at, proc[p].job.path, typed, asked)

Inv == Shaped /\ DiskOK(key, typed, asked) /\ \A p \in Procs : Ready(p)

LEMMA PrivateFacts ==
    ASSUME NEW id, NEW type, NEW comment, NEW pass, NEW form
    PROVE  LET k == Private(id, type, comment, pass, form) IN
           DOMAIN k = FileFields /\ k.there /\ k.whole /\ k.pass = pass /\ k.id = id
BY DEF Private, FileFields

LEMMA NoneFacts ==
    /\ DOMAIN None = FileFields /\ ~None.there /\ ~None.whole /\ None.pass = 0
    /\ \A id : LET k == [Cut EXCEPT !.id = id] IN
          DOMAIN k = FileFields /\ k.there /\ ~k.whole /\ k.pass = 0
BY DEF None, Cut, FileFields

LEMMA IdleFacts ==
    DOMAIN Idle = ProcFields /\ Idle.pc = "idle" /\ Idle.made = None /\ Idle.at = 0
BY DEF Idle, ProcFields

LEMMA FilePut ==
    ASSUME Inv, NEW n \in Paths, NEW k, NEW files, files = [key EXCEPT ![n] = k],
           Sound(k, n, typed, asked)
    PROVE  DiskOK(files, typed, asked)
BY DEF Inv, DiskOK

Grows == typed \subseteq typed' /\ asked \subseteq asked'

LEMMA DiskGrows ==
    ASSUME Inv, Grows, key' = key
    PROVE  DiskOK(key', typed', asked')
BY DEF Inv, DiskOK, Grows, Sound

\* Process p goes on to pc, with a file in hand and at a host key.
Moved(p, pc, made, at) ==
    \E a : /\ proc' = [proc EXCEPT ![p] = a] /\ DOMAIN a = ProcFields /\ a.pc = pc
           /\ a.made = made /\ a.job = proc[p].job /\ a.at = at

LEMMA MoveInv ==
    ASSUME Inv, NEW p \in Procs, NEW pc, NEW m, NEW i \in Nat, proc[p].pc # "idle",
           Moved(p, pc, m, i), i > 0, DOMAIN m = FileFields, Grows,
           DiskOK(key', typed', asked'), Fit(pc, m, i, proc[p].job.path, typed', asked')
    PROVE  Inv'
<1>1. DOMAIN proc = Procs /\ proc[p].job \in Jobs
    BY DEF Inv, Shaped
<1>2. PICK a : /\ proc' = [proc EXCEPT ![p] = a] /\ DOMAIN a = ProcFields /\ a.pc = pc
               /\ a.made = m /\ a.job = proc[p].job /\ a.at = i
    BY DEF Moved
<1>3. DOMAIN proc' = Procs /\ proc'[p] = a /\ \A q \in Procs \ {p} : proc'[q] = proc[q]
    BY <1>1, <1>2
<1>4. Ready(p)'
    BY <1>2, <1>3 DEF Ready
<1>5. ASSUME NEW q \in Procs, q # p PROVE Ready(q)'
    BY <1>3, <1>5 DEF Inv, Ready, Fit, Grows
<1>6. ASSUME NEW q \in Procs
      PROVE  /\ DOMAIN proc'[q] = ProcFields /\ DOMAIN proc'[q].made = FileFields
             /\ proc'[q].at \in Nat
             /\ proc'[q].pc # "idle" => proc'[q].job \in Jobs /\ proc'[q].at > 0
    <2>1. CASE q = p
        BY <2>1, <1>1, <1>2, <1>3
    <2>2. CASE q # p
        BY <2>2, <1>3 DEF Inv, Shaped
    <2> QED BY <2>1, <2>2
<1>7. Shaped'
    BY <1>3, <1>6 DEF Shaped
<1> QED BY <1>4, <1>5, <1>7 DEF Inv

LEMMA ProcFacts ==
    ASSUME Inv, ConstantsOK, NEW p \in Procs, proc[p].pc # "idle"
    PROVE  /\ DOMAIN proc = Procs /\ DOMAIN proc[p] = ProcFields /\ DOMAIN proc[p].made = FileFields
           /\ proc[p].at \in Nat /\ proc[p].at > 0 /\ proc[p].job \in Jobs /\ proc[p].job.path \in Paths
           /\ DOMAIN key = Paths
           /\ Sound(key[proc[p].job.path], proc[p].job.path, typed, asked) /\ Ready(p)
BY DEF Inv, Shaped, ConstantsOK, DiskOK

\* A process that goes on with what it has, or ends.
LEMMA GotoInv ==
    ASSUME Inv, ConstantsOK, NEW p \in Procs, NEW pc, proc[p].pc # "idle",
           Goto(p, pc) \/ (pc = "done" /\ \E code : Exit(p, code)), Grows,
           DiskOK(key', typed', asked'),
           Fit(pc, proc[p].made, proc[p].at, proc[p].job.path, typed', asked')
    PROVE  Inv'
<1>1. /\ DOMAIN proc = Procs /\ DOMAIN proc[p] = ProcFields /\ DOMAIN proc[p].made = FileFields
      /\ proc[p].at \in Nat /\ proc[p].at > 0
    BY ProcFacts
<1>2. Moved(p, pc, proc[p].made, proc[p].at)
    <2>1. CASE Goto(p, pc)
        <3> DEFINE a == [proc[p] EXCEPT !.pc = pc]
        <3>1. DOMAIN a = ProcFields /\ a.pc = pc /\ a.made = proc[p].made /\ a.job = proc[p].job
              /\ a.at = proc[p].at
            BY <1>1 DEF ProcFields
        <3>2. proc' = [proc EXCEPT ![p] = a]
            BY <2>1, <1>1 DEF Goto
        <3> QED BY <3>1, <3>2 DEF Moved
    <2>2. ASSUME NEW code, pc = "done", Exit(p, code) PROVE Moved(p, pc, proc[p].made, proc[p].at)
        <3> DEFINE a == [proc[p] EXCEPT !.pc = "done", !.ret = code]
        <3>1. DOMAIN a = ProcFields /\ a.pc = pc /\ a.made = proc[p].made /\ a.job = proc[p].job
              /\ a.at = proc[p].at
            BY <1>1, <2>2 DEF ProcFields
        <3>2. proc' = [proc EXCEPT ![p] = a]
            BY <2>2, <1>1 DEF Exit
        <3> QED BY <3>1, <3>2 DEF Moved
    <2> QED BY <2>1, <2>2
<1> QED BY <1>1, <1>2, MoveInv

Harmless == {"done", "openpub", "fillpub", "idle", "fingerprintpub"} \cup Ops

LEMMA DoneFit ==
    ASSUME NEW pc \in Harmless, NEW m, NEW i, NEW n, NEW ty, NEW as
    PROVE  Fit(pc, m, i, n, ty, as)
<1>1. pc \notin {"create", "fill", "replace", "rename"}
    BY DEF Harmless, Ops
<1>4. pc \notin {"replace", "rename"}
    BY DEF Harmless, Ops
<1>2. pc \notin {"remove", "removepub", "make", "create", "fill"}
    BY DEF Harmless, Ops
<1>3. pc \notin {"renamepub", "renamekey"}
    BY DEF Harmless, Ops
<1> QED BY <1>1, <1>2, <1>3, <1>4 DEF Fit

\* A process that ends, having left the private keys alone.
LEMMA ExitInv ==
    ASSUME Inv, ConstantsOK, NEW p \in Procs, proc[p].pc # "idle", \E code : Exit(p, code), Grows,
           key' = key
    PROVE  Inv'
BY GotoInv, DoneFit, DiskGrows DEF Harmless

-----------------------------------------------------------------------------
LEMMA run_generateInv == ASSUME Inv, ConstantsOK, NEW p \in Procs, run_generate(p) PROVE Inv'
<1>1. /\ proc[p].pc = "generate" /\ key' = key /\ Grows
      /\ \/ Goto(p, "make") /\ proc[p].job.path \in asked'
         \/ Exit(p, 1)
         \/ Goto(p, "remove") /\ proc[p].job.path \in asked'
    BY DEF run_generate, Now, Disk, Grows
<1>2. CASE Exit(p, 1)
    BY <1>1, <1>2, ExitInv
<1>3. ASSUME NEW pc \in {"make", "remove"}, Goto(p, pc), proc[p].job.path \in asked' PROVE Inv'
    <2>1. Fit(pc, proc[p].made, proc[p].at, proc[p].job.path, typed', asked')
        BY <1>3 DEF Fit
    <2> QED BY <2>1, <1>1, <1>3, GotoInv, DiskGrows
<1> QED BY <1>1, <1>2, <1>3

LEMMA RemoveOldInv == ASSUME Inv, ConstantsOK, NEW p \in Procs, RemoveOld(p) PROVE Inv'
<1>1. /\ proc[p].pc = "remove" /\ Goto(p, "removepub") /\ typed' = typed /\ asked' = asked
      /\ key' = [key EXCEPT ![proc[p].job.path] = None] \/ key' = key
    BY DEF RemoveOld, Now
<1>2. proc[p].job.path \in Paths /\ proc[p].job.path \in asked
    BY <1>1, ProcFacts DEF Ready, Fit
<1>3. Sound(None, proc[p].job.path, typed, asked)
    BY <1>2, NoneFacts DEF Sound
<1>4. DiskOK(key', typed', asked')
    BY <1>1, <1>2, <1>3, FilePut DEF Inv
<1>5. Fit("removepub", proc[p].made, proc[p].at, proc[p].job.path, typed', asked') /\ Grows
    BY <1>1, <1>2 DEF Fit, Grows
<1> QED BY <1>1, <1>4, <1>5, GotoInv

LEMMA RemoveOldPubInv == ASSUME Inv, ConstantsOK, NEW p \in Procs, RemoveOldPub(p) PROVE Inv'
<1>1. /\ proc[p].pc = "removepub" /\ Goto(p, "make") /\ typed' = typed /\ asked' = asked /\ key' = key
      /\ Grows
    BY DEF RemoveOldPub, Grows
<1>2. proc[p].job.path \in asked
    BY <1>1, ProcFacts DEF Ready, Fit
<1>3. Fit("make", proc[p].made, proc[p].at, proc[p].job.path, typed', asked')
    BY <1>1, <1>2 DEF Fit
<1> QED BY <1>1, <1>3, GotoInv, DiskGrows

\* A process that has a new file in hand.
LEMMA MadeMoves ==
    ASSUME Inv, ConstantsOK, NEW p \in Procs, proc[p].pc # "idle", NEW pc, NEW m,
           proc' = [proc EXCEPT ![p].pc = pc, ![p].made = m]
    PROVE  Moved(p, pc, m, proc[p].at)
<1> DEFINE a == [proc[p] EXCEPT !.pc = pc, !.made = m]
<1>1. DOMAIN proc = Procs /\ DOMAIN proc[p] = ProcFields
    BY ProcFacts
<1>2. DOMAIN a = ProcFields /\ a.pc = pc /\ a.made = m /\ a.job = proc[p].job /\ a.at = proc[p].at
    BY <1>1 DEF ProcFields
<1>3. proc' = [proc EXCEPT ![p] = a]
    BY <1>1
<1> QED BY <1>2, <1>3 DEF Moved

LEMMA GeneratedInv == ASSUME Inv, ConstantsOK, NEW p \in Procs, Generated(p) PROVE Inv'
<1>1. /\ proc[p].pc = "make" /\ asked' = asked /\ key' = key /\ typed \subseteq typed'
      /\ \/ \E code : Exit(p, code)
         \/ \E pass, sk : /\ sk = Private(fresh, proc[p].job.type, proc[p].job.comment, pass, proc[p].job.form)
                          /\ pass \in typed'
                          /\ proc' = [proc EXCEPT ![p].pc = "create", ![p].made = sk]
    BY DEF Generated, Now, Disk
<1>2. proc[p].at \in Nat /\ proc[p].at > 0 /\ proc[p].job.path \in asked
    BY <1>1, ProcFacts DEF Ready, Fit
<1>0. Grows
    BY <1>1 DEF Grows
<1>3. CASE \E code : Exit(p, code)
    BY <1>0, <1>1, <1>3, ExitInv
<1>4. ASSUME NEW pass, NEW sk, pass \in typed',
             sk = Private(fresh, proc[p].job.type, proc[p].job.comment, pass, proc[p].job.form),
             proc' = [proc EXCEPT ![p].pc = "create", ![p].made = sk]
      PROVE  Inv'
    <2>1. DOMAIN sk = FileFields /\ sk.there /\ sk.whole /\ sk.pass = pass
        BY <1>4, PrivateFacts
    <2>2. Moved(p, "create", sk, proc[p].at)
        BY <1>1, <1>4, MadeMoves
    <2>3. Fit("create", sk, proc[p].at, proc[p].job.path, typed', asked')
        BY <2>1, <1>1, <1>2, <1>4 DEF Fit
    <2>4. DiskOK(key', typed', asked')
        BY <1>0, <1>1, DiskGrows
    <2> QED BY <2>1, <2>2, <2>3, <2>4, <1>0, <1>1, <1>2, MoveInv
<1> QED BY <1>1, <1>3, <1>4

LEMMA write_privateInv == ASSUME Inv, ConstantsOK, NEW p \in Procs, write_private(p) PROVE Inv'
<1>1. /\ proc[p].pc = "create" /\ asked' = asked /\ typed' = typed /\ Grows
      /\ \/ Exit(p, 1) /\ key' = key
         \/ /\ Goto(p, "fill")
            /\ key' = [key EXCEPT ![proc[p].job.path] = [Cut EXCEPT !.id = proc[p].made.id]]
    BY DEF write_private, Now, Grows
<1>2. CASE Exit(p, 1) /\ key' = key
    BY <1>1, <1>2, ExitInv
<1>3. ASSUME Goto(p, "fill"), NEW k, k = [Cut EXCEPT !.id = proc[p].made.id],
             key' = [key EXCEPT ![proc[p].job.path] = k]
      PROVE  Inv'
    <2>1. /\ proc[p].job.path \in Paths /\ proc[p].job.path \in asked
          /\ proc[p].made.there /\ proc[p].made.whole
        BY <1>1, ProcFacts DEF Ready, Fit
    <2>2. DOMAIN k = FileFields /\ k.there /\ ~k.whole
        BY <1>3, NoneFacts
    <2>3. Sound(k, proc[p].job.path, typed, asked)
        BY <2>1, <2>2 DEF Sound
    <2>4. DiskOK(key', typed', asked')
        BY <2>1, <2>3, <1>1, <1>3, FilePut
    <2>5. Fit("fill", proc[p].made, proc[p].at, proc[p].job.path, typed', asked')
        BY <2>1, <1>1 DEF Fit
    <2> QED BY <2>4, <2>5, <1>1, <1>3, GotoInv
<1> QED BY <1>1, <1>2, <1>3

LEMMA FilledInv == ASSUME Inv, ConstantsOK, NEW p \in Procs, Filled(p) PROVE Inv'
<1>0. PICK n, m : n = proc[p].job.path /\ m = proc[p].made
    OBVIOUS
<1>1. /\ proc[p].pc = "fill" /\ asked' = asked /\ typed' = typed /\ Grows
      /\ \/ Exit(p, 1) /\ key' = key
         \/ /\ Goto(p, "openpub")
            /\ key' = [key EXCEPT ![n] = IF @.id = m.id THEN m ELSE @]
    BY <1>0 DEF Filled, Now, Grows
<1>2. CASE Exit(p, 1) /\ key' = key
    BY <1>1, <1>2, ExitInv
<1>3. CASE Goto(p, "openpub") /\ key' = [key EXCEPT ![n] = IF @.id = m.id THEN m ELSE @]
    <2>1. /\ n \in Paths /\ n \in asked /\ DOMAIN m = FileFields
          /\ m.there /\ m.whole
        BY <1>0, <1>1, ProcFacts DEF Ready, Fit
    <2>2. Sound(m, n, typed, asked) /\ Sound(key[n], n, typed, asked)
        BY <2>1 DEF Sound, Inv, DiskOK
    <2>3. PICK k : k = (IF key[n].id = m.id THEN m ELSE key[n])
        OBVIOUS
    <2>4. key' = [key EXCEPT ![n] = k] /\ Sound(k, n, typed, asked)
        BY <2>2, <2>3, <1>3
    <2>5. DiskOK(key', typed', asked')
        BY <2>1, <2>4, <1>1, FilePut
    <2> QED BY <2>5, <1>1, <1>3, GotoInv, DoneFit DEF Harmless
<1> QED BY <1>1, <1>2, <1>3

LEMMA write_publicInv ==
    ASSUME Inv, ConstantsOK, NEW p \in Procs, write_public(p) \/ FilledPub(p) PROVE Inv'
<1>1. /\ proc[p].pc \in {"openpub", "fillpub"} /\ Grows /\ key' = key
      /\ Goto(p, "fillpub") \/ \E code : Exit(p, code)
    BY DEF write_public, FilledPub, Grows
<1>2. CASE Goto(p, "fillpub")
    BY <1>1, <1>2, GotoInv, DoneFit, DiskGrows DEF Harmless
<1>3. CASE \E code : Exit(p, code)
    BY <1>1, <1>3, ExitInv
<1> QED BY <1>1, <1>2, <1>3

LEMMA run_host_keysInv == ASSUME Inv, ConstantsOK, NEW p \in Procs, run_host_keys(p) PROVE Inv'
<1>0. PICK i : i = proc[p].at
    OBVIOUS
<1>1. /\ proc[p].pc = "hosts" /\ asked' = asked /\ typed' = typed /\ key' = key /\ Grows
      /\ \/ \E code : Exit(p, code)
         \/ proc' = [proc EXCEPT ![p].at = i + 1]
         \/ /\ i <= Len(Hosts) /\ ~key[Hosts[i]].there
            /\ proc' = [proc EXCEPT ![p].pc = "renamepub", ![p].made = Private(fresh, "rsa", 0, 0, "new")]
    BY <1>0 DEF run_host_keys, Disk, Grows
<1>2. /\ DOMAIN proc = Procs /\ DOMAIN proc[p] = ProcFields /\ DOMAIN proc[p].made = FileFields
      /\ i \in Nat /\ i > 0
    BY <1>0, <1>1, ProcFacts
<1>3. DiskOK(key', typed', asked')
    BY <1>1, DiskGrows
<1>4. CASE \E code : Exit(p, code)
    BY <1>1, <1>4, ExitInv
<1>5. CASE proc' = [proc EXCEPT ![p].at = i + 1]
    <2> DEFINE a == [proc[p] EXCEPT !.at = i + 1]
    <2>1. /\ DOMAIN a = ProcFields /\ a.pc = "hosts" /\ a.made = proc[p].made /\ a.job = proc[p].job
          /\ a.at = i + 1
        BY <1>1, <1>2 DEF ProcFields
    <2>2. proc' = [proc EXCEPT ![p] = a]
        BY <1>2, <1>5
    <2>3. Moved(p, "hosts", proc[p].made, i + 1)
        BY <2>1, <2>2 DEF Moved
    <2>4. i + 1 \in Nat /\ i + 1 > 0
        BY <1>2
    <2> QED BY <2>3, <2>4, <1>1, <1>2, <1>3, MoveInv, DoneFit DEF Harmless, Ops
<1>6. ASSUME NEW m, m = Private(fresh, "rsa", 0, 0, "new"), i <= Len(Hosts), ~key[Hosts[i]].there,
             proc' = [proc EXCEPT ![p].pc = "renamepub", ![p].made = m]
      PROVE  Inv'
    <2>1. DOMAIN m = FileFields /\ m.there /\ m.whole /\ m.pass = 0
        BY <1>6, PrivateFacts
    <2>2. i \in 1..Len(Hosts) /\ Hosts[i] \in Paths
        BY <1>2, <1>6 DEF ConstantsOK
    <2>3. Sound(key[Hosts[i]], Hosts[i], typed, asked)
        BY <2>2 DEF Inv, DiskOK
    <2>4. Hosts[i] \in asked \/ 0 \in typed
        BY <2>3, <1>6 DEF Sound
    <2>5. Fit("renamepub", m, i, proc[p].job.path, typed', asked')
        BY <2>1, <2>2, <2>4, <1>1 DEF Fit
    <2>6. Moved(p, "renamepub", m, i)
        BY <1>0, <1>1, <1>6, MadeMoves
    <2> QED BY <2>1, <2>5, <2>6, <1>1, <1>2, <1>3, MoveInv
<1> QED BY <1>1, <1>4, <1>5, <1>6

LEMMA RenamePubInv == ASSUME Inv, ConstantsOK, NEW p \in Procs, RenamePub(p) PROVE Inv'
<1>1. /\ proc[p].pc = "renamepub" /\ asked' = asked /\ typed' = typed /\ key' = key /\ Grows
      /\ Goto(p, "renamekey") \/ Exit(p, 1)
    BY DEF RenamePub, Grows
<1>2. CASE Exit(p, 1)
    BY <1>1, <1>2, ExitInv
<1>3. CASE Goto(p, "renamekey")
    <2>1. Fit("renamekey", proc[p].made, proc[p].at, proc[p].job.path, typed', asked')
        BY <1>1, ProcFacts DEF Ready, Fit
    <2> QED BY <2>1, <1>1, <1>3, GotoInv, DiskGrows
<1> QED BY <1>1, <1>2, <1>3

LEMMA RenameKeyInv == ASSUME Inv, ConstantsOK, NEW p \in Procs, RenameKey(p) PROVE Inv'
<1>0. PICK i, m : i = proc[p].at /\ m = proc[p].made
    OBVIOUS
<1>1. /\ proc[p].pc = "renamekey" /\ asked' = asked /\ typed' = typed /\ Grows
      /\ \/ Exit(p, 1) /\ key' = key
         \/ /\ key' = [key EXCEPT ![Hosts[i]] = m]
            /\ proc' = [proc EXCEPT ![p].pc = "hosts", ![p].at = @ + 1]
    BY <1>0 DEF RenameKey, Grows
<1>2. CASE Exit(p, 1) /\ key' = key
    BY <1>1, <1>2, ExitInv
<1>3. CASE /\ key' = [key EXCEPT ![Hosts[i]] = m]
           /\ proc' = [proc EXCEPT ![p].pc = "hosts", ![p].at = @ + 1]
    <2>1. /\ DOMAIN proc = Procs /\ DOMAIN proc[p] = ProcFields /\ DOMAIN m = FileFields
          /\ i \in Nat /\ i > 0
          /\ m.there /\ m.whole /\ m.pass = 0 /\ i \in 1..Len(Hosts)
          /\ Hosts[i] \in asked \/ 0 \in typed
        BY <1>0, <1>1, ProcFacts DEF Ready, Fit
    <2>2. Hosts[i] \in Paths
        BY <2>1 DEF ConstantsOK
    <2>3. Sound(m, Hosts[i], typed, asked)
        BY <2>1 DEF Sound
    <2>4. DiskOK(key', typed', asked')
        BY <2>2, <2>3, <1>1, <1>3, FilePut
    <2> DEFINE a == [proc[p] EXCEPT !.pc = "hosts", !.at = @ + 1]
    <2>5. /\ DOMAIN a = ProcFields /\ a.pc = "hosts" /\ a.made = m /\ a.job = proc[p].job
          /\ a.at = i + 1
        BY <1>0, <2>1 DEF ProcFields
    <2>6. proc' = [proc EXCEPT ![p] = a]
        BY <1>3, <2>1
    <2>7. Moved(p, "hosts", m, i + 1)
        BY <2>5, <2>6 DEF Moved
    <2>8. i + 1 \in Nat /\ i + 1 > 0
        BY <2>1
    <2>9. Fit("hosts", m, i + 1, proc[p].job.path, typed', asked')
        BY DoneFit DEF Harmless, Ops
    <2> QED BY <2>1, <2>4, <2>7, <2>8, <2>9, <1>1, MoveInv
<1> QED BY <1>1, <1>2, <1>3

LEMMA LoadedFacts ==
    ASSUME NEW file, DOMAIN file = FileFields, NEW pass, NEW form, NEW c
    PROVE  /\ LET m == [Loaded(file) EXCEPT !.pass = pass, !.form = form] IN
              /\ DOMAIN m = FileFields /\ m.there = file.there /\ m.whole = file.whole
              /\ m.pass = pass /\ m.id = file.id
           /\ LET m == [file EXCEPT !.comment = c, !.form = form] IN
              /\ DOMAIN m = FileFields /\ m.there = file.there /\ m.whole = file.whole
              /\ m.pass = file.pass /\ m.id = file.id
BY DEF Loaded, FileFields

LEMMA run_change_passphraseInv ==
    ASSUME Inv, ConstantsOK, NEW p \in Procs, run_change_passphrase(p) PROVE Inv'
<1>0. PICK n, file : n = proc[p].job.path /\ file = key[n]
    OBVIOUS
<1>1. /\ proc[p].pc = "passphrase" /\ asked' = asked /\ key' = key /\ typed \subseteq typed'
      /\ \/ \E code : Exit(p, code)
         \/ \E pass, m : /\ m = [Loaded(file) EXCEPT !.pass = pass, !.form = proc[p].job.form]
                         /\ pass \in typed' /\ file.whole
                         /\ proc' = [proc EXCEPT ![p].pc = "replace", ![p].made = m]
    BY <1>0 DEF run_change_passphrase, Now, Disk, parse_pem
<1>2. Grows
    BY <1>1 DEF Grows
<1>3. CASE \E code : Exit(p, code)
    BY <1>1, <1>2, <1>3, ExitInv
<1>4. ASSUME NEW pass, NEW m, m = [Loaded(file) EXCEPT !.pass = pass, !.form = proc[p].job.form],
             pass \in typed', file.whole, proc' = [proc EXCEPT ![p].pc = "replace", ![p].made = m]
      PROVE  Inv'
    <2>1. proc[p].at \in Nat /\ proc[p].at > 0 /\ Sound(file, n, typed, asked)
        BY <1>0, <1>1, ProcFacts
    <2>2. DOMAIN m = FileFields /\ m.there /\ m.whole /\ m.pass = pass
        BY <2>1, <1>4, LoadedFacts DEF Sound
    <2>3. Moved(p, "replace", m, proc[p].at)
        BY <1>1, <1>4, MadeMoves
    <2>4. Fit("replace", m, proc[p].at, proc[p].job.path, typed', asked')
        BY <2>2, <1>4 DEF Fit
    <2>5. DiskOK(key', typed', asked')
        BY <1>1, <1>2, DiskGrows
    <2> QED BY <2>1, <2>2, <2>3, <2>4, <2>5, <1>1, <1>2, MoveInv
<1> QED BY <1>1, <1>3, <1>4

\* A process that ends with something to show.
LEMMA ShownInv ==
    ASSUME Inv, ConstantsOK, NEW p \in Procs, proc[p].pc # "idle", Grows, key' = key, NEW x,
           \/ proc' = [proc EXCEPT ![p].pc = "done", ![p].ret = 0, ![p].same = x]
           \/ proc' = [proc EXCEPT ![p].pc = "done", ![p].ret = 0, ![p].printed = x]
    PROVE  Inv'
<1>1. /\ DOMAIN proc = Procs /\ DOMAIN proc[p] = ProcFields /\ DOMAIN proc[p].made = FileFields
      /\ proc[p].at \in Nat /\ proc[p].at > 0
    BY ProcFacts
<1>2. Moved(p, "done", proc[p].made, proc[p].at)
    <2>1. CASE proc' = [proc EXCEPT ![p].pc = "done", ![p].ret = 0, ![p].same = x]
        <3> DEFINE a == [proc[p] EXCEPT !.pc = "done", !.ret = 0, !.same = x]
        <3>1. DOMAIN a = ProcFields /\ a.pc = "done" /\ a.made = proc[p].made /\ a.job = proc[p].job
              /\ a.at = proc[p].at
            BY <1>1 DEF ProcFields
        <3>2. proc' = [proc EXCEPT ![p] = a]
            BY <2>1, <1>1
        <3> QED BY <3>1, <3>2 DEF Moved
    <2>2. CASE proc' = [proc EXCEPT ![p].pc = "done", ![p].ret = 0, ![p].printed = x]
        <3> DEFINE a == [proc[p] EXCEPT !.pc = "done", !.ret = 0, !.printed = x]
        <3>1. DOMAIN a = ProcFields /\ a.pc = "done" /\ a.made = proc[p].made /\ a.job = proc[p].job
              /\ a.at = proc[p].at
            BY <1>1 DEF ProcFields
        <3>2. proc' = [proc EXCEPT ![p] = a]
            BY <2>2, <1>1
        <3> QED BY <3>1, <3>2 DEF Moved
    <2> QED BY <2>1, <2>2
<1>3. Fit("done", proc[p].made, proc[p].at, proc[p].job.path, typed', asked')
    BY DoneFit DEF Harmless
<1> QED BY <1>1, <1>2, <1>3, MoveInv, DiskGrows

LEMMA run_change_commentInv ==
    ASSUME Inv, ConstantsOK, NEW p \in Procs, run_change_comment(p) PROVE Inv'
<1>0. PICK n, file : n = proc[p].job.path /\ file = key[n]
    OBVIOUS
<1>1. /\ proc[p].pc = "comment" /\ asked' = asked /\ key' = key /\ typed' = typed /\ Grows
      /\ \/ \E code : Exit(p, code)
         \/ proc' = [proc EXCEPT ![p].pc = "done", ![p].ret = 0, ![p].same = TRUE]
         \/ \E m : /\ m = [file EXCEPT !.comment = proc[p].job.comment, !.form = proc[p].job.form]
                   /\ file.whole
                   /\ proc' = [proc EXCEPT ![p].pc = "replace", ![p].made = m]
    BY <1>0 DEF run_change_comment, Now, Disk, Same, parse_pem, Grows
<1>2. CASE \E code : Exit(p, code)
    BY <1>1, <1>2, ExitInv
<1>3. CASE proc' = [proc EXCEPT ![p].pc = "done", ![p].ret = 0, ![p].same = TRUE]
    BY <1>1, <1>3, ShownInv
<1>4. ASSUME NEW m, m = [file EXCEPT !.comment = proc[p].job.comment, !.form = proc[p].job.form],
             file.whole, proc' = [proc EXCEPT ![p].pc = "replace", ![p].made = m]
      PROVE  Inv'
    <2>1. proc[p].at \in Nat /\ proc[p].at > 0 /\ Sound(file, n, typed, asked)
        BY <1>0, <1>1, ProcFacts
    <2>2. DOMAIN m = FileFields /\ m.there /\ m.whole /\ m.pass = file.pass
        BY <2>1, <1>4, LoadedFacts DEF Sound
    <2>3. Moved(p, "replace", m, proc[p].at)
        BY <1>1, <1>4, MadeMoves
    <2>4. Fit("replace", m, proc[p].at, proc[p].job.path, typed', asked')
        BY <2>1, <2>2, <1>0, <1>1, <1>4 DEF Fit, Sound
    <2>5. DiskOK(key', typed', asked')
        BY <1>1, DiskGrows
    <2> QED BY <2>1, <2>2, <2>3, <2>4, <2>5, <1>1, MoveInv
<1> QED BY <1>1, <1>2, <1>3, <1>4

LEMMA replace_privateInv == ASSUME Inv, ConstantsOK, NEW p \in Procs, replace_private(p) PROVE Inv'
<1>1. /\ proc[p].pc = "replace" /\ asked' = asked /\ key' = key /\ typed' = typed /\ Grows
      /\ Goto(p, "rename") \/ Exit(p, 1)
    BY DEF replace_private, Disk, Grows
<1>2. CASE Exit(p, 1)
    BY <1>1, <1>2, ExitInv
<1>3. CASE Goto(p, "rename")
    <2>1. Fit("rename", proc[p].made, proc[p].at, proc[p].job.path, typed', asked')
        BY <1>1, ProcFacts DEF Ready, Fit
    <2> QED BY <2>1, <1>1, <1>3, GotoInv, DiskGrows
<1> QED BY <1>1, <1>2, <1>3

LEMMA RenamedInv == ASSUME Inv, ConstantsOK, NEW p \in Procs, Renamed(p) PROVE Inv'
<1>0. PICK n, m : n = proc[p].job.path /\ m = proc[p].made
    OBVIOUS
<1>1. /\ proc[p].pc = "rename" /\ asked' = asked /\ typed' = typed /\ Grows
      /\ \/ Exit(p, 1) /\ key' = key
         \/ /\ key' = [key EXCEPT ![n] = m]
            /\ Goto(p, "openpub") \/ Exit(p, 0)
    BY <1>0 DEF Renamed, Now, Grows
<1>2. CASE Exit(p, 1) /\ key' = key
    BY <1>1, <1>2, ExitInv
<1>3. CASE key' = [key EXCEPT ![n] = m] /\ (Goto(p, "openpub") \/ Exit(p, 0))
    <2>1. n \in Paths /\ DOMAIN m = FileFields /\ m.there /\ m.whole /\ (n \in asked \/ m.pass \in typed)
        BY <1>0, <1>1, ProcFacts DEF Ready, Fit
    <2>2. Sound(m, n, typed, asked)
        BY <2>1 DEF Sound
    <2>3. DiskOK(key', typed', asked')
        BY <2>1, <2>2, <1>1, <1>3, FilePut
    <2> QED BY <2>3, <1>1, <1>3, GotoInv, DoneFit DEF Harmless
<1> QED BY <1>1, <1>2, <1>3

LEMMA ReadersInv ==
    ASSUME Inv, ConstantsOK, NEW p \in Procs,
           run_extract_public(p) \/ run_export(p) \/ fingerprint_key(p) \/ run_fingerprint(p)
    PROVE  Inv'
<1>0. PICK n, file : n = proc[p].job.path /\ file = key[n]
    OBVIOUS
<1>1. /\ proc[p].pc \in {"extract", "export", "fingerprint", "fingerprintpub"}
      /\ key' = key /\ Grows
    BY DEF run_extract_public, run_export, fingerprint_key, run_fingerprint, Disk, Same, Grows
<1>2. \/ \E code : Exit(p, code)
      \/ \E x : proc' = [proc EXCEPT ![p].pc = "done", ![p].ret = 0, ![p].printed = x]
      \/ proc' = [proc EXCEPT ![p].pc = "fingerprintpub", ![p].made = file]
    <2>1. CASE run_extract_public(p)
        BY <2>1 DEF run_extract_public
    <2>2. CASE run_export(p)
        BY <2>2 DEF run_export
    <2>3. CASE fingerprint_key(p)
        BY <2>3, <1>0 DEF fingerprint_key, Now
    <2>4. CASE run_fingerprint(p)
        BY <2>4 DEF run_fingerprint
    <2> QED BY <2>1, <2>2, <2>3, <2>4
<1>3. CASE \E code : Exit(p, code)
    BY <1>1, <1>3, ExitInv
<1>4. CASE \E x : proc' = [proc EXCEPT ![p].pc = "done", ![p].ret = 0, ![p].printed = x]
    BY <1>1, <1>4, ShownInv
<1>5. CASE proc' = [proc EXCEPT ![p].pc = "fingerprintpub", ![p].made = file]
    <2>1. proc[p].at \in Nat /\ proc[p].at > 0 /\ DOMAIN file = FileFields
        BY <1>0, <1>1, ProcFacts DEF Sound
    <2>2. Moved(p, "fingerprintpub", file, proc[p].at)
        BY <1>1, <1>5, MadeMoves
    <2>3. Fit("fingerprintpub", file, proc[p].at, proc[p].job.path, typed', asked')
        BY DoneFit DEF Harmless
    <2> QED BY <2>1, <2>2, <2>3, <1>1, MoveInv, DiskGrows
<1> QED BY <1>2, <1>3, <1>4, <1>5

LEMMA runInv == ASSUME Inv, ConstantsOK, NEW p \in Procs, NEW j \in Jobs, run(p, j) PROVE Inv'
<1>1. /\ key' = key /\ typed \subseteq typed' /\ asked' = asked
      /\ proc' = [q \in Procs |->
                  IF q = p THEN [Idle EXCEPT !.pc = j.op, !.job = j, !.at = 1,
                                             !.alone = (Running = {})]
                  ELSE [proc[q] EXCEPT !.alone = FALSE]]
    BY DEF run, Disk
<1>2. Grows
    BY <1>1 DEF Grows
<1> DEFINE a == [Idle EXCEPT !.pc = j.op, !.job = j, !.at = 1, !.alone = (Running = {})]
<1>3. DOMAIN a = ProcFields /\ a.pc = j.op /\ a.job = j /\ a.at = 1 /\ a.made = None
    BY IdleFacts DEF ProcFields
<1>4. DOMAIN proc' = Procs /\ proc'[p] = a
    BY <1>1
<1> HIDE DEF a
<1>5. Ready(p)'
    BY <1>3, <1>4, DoneFit DEF Ready, ConstantsOK, Harmless
<1>6. ASSUME NEW q \in Procs, q # p
      PROVE  /\ DOMAIN proc'[q] = ProcFields /\ proc'[q].pc = proc[q].pc /\ proc'[q].made = proc[q].made
             /\ proc'[q].job = proc[q].job /\ proc'[q].at = proc[q].at
    <2>1. proc'[q] = [proc[q] EXCEPT !.alone = FALSE] /\ DOMAIN proc[q] = ProcFields
        BY <1>1, <1>6 DEF Inv, Shaped
    <2> QED BY <2>1 DEF ProcFields
<1>7. ASSUME NEW q \in Procs PROVE Ready(q)'
    <2>1. CASE q = p
        BY <2>1, <1>5
    <2>2. CASE q # p
        BY <2>2, <1>2, <1>6 DEF Inv, Ready, Fit, Grows
    <2> QED BY <2>1, <2>2
<1>8. ASSUME NEW q \in Procs
      PROVE  /\ DOMAIN proc'[q] = ProcFields /\ DOMAIN proc'[q].made = FileFields
             /\ proc'[q].at \in Nat
             /\ proc'[q].pc # "idle" => proc'[q].job \in Jobs /\ proc'[q].at > 0
    <2>1. CASE q = p
        BY <2>1, <1>3, <1>4, NoneFacts
    <2>2. CASE q # p
        BY <2>2, <1>6 DEF Inv, Shaped
    <2> QED BY <2>1, <2>2
<1>9. DiskOK(key', typed', asked')
    BY <1>1, <1>2, DiskGrows
<1> QED BY <1>4, <1>7, <1>8, <1>9 DEF Inv, Shaped

LEMMA KilledInv == ASSUME Inv, ConstantsOK, NEW p \in Procs, Killed(p) PROVE Inv'
<1>1. /\ key' = key /\ typed' = typed /\ asked' = asked /\ proc' = [proc EXCEPT ![p] = Idle]
    BY DEF Killed, Disk
<1>2. DOMAIN proc = Procs
    BY DEF Inv, Shaped
<1>3. DOMAIN proc' = Procs /\ proc'[p] = Idle /\ \A q \in Procs \ {p} : proc'[q] = proc[q]
    BY <1>1, <1>2
<1>4. Ready(p)'
    BY <1>3, IdleFacts, DoneFit DEF Ready, Harmless
<1>5. ASSUME NEW q \in Procs PROVE Ready(q)'
    BY <1>1, <1>3, <1>4 DEF Inv, Ready
<1>6. Shaped'
    BY <1>3, IdleFacts, NoneFacts DEF Inv, Shaped
<1> QED BY <1>1, <1>5, <1>6 DEF Inv

LEMMA InitInv == ASSUME ConstantsOK PROVE Init => Inv
<1> SUFFICES ASSUME Init PROVE Inv
    OBVIOUS
<1>1. PICK d \in Disks : key = d.key
    BY DEF Init
<1>2. proc = [p \in Procs |-> Idle] /\ asked = {} /\ typed = {key[n].pass : n \in Paths}
    BY DEF Init
<1>3. DOMAIN key = Paths
    BY <1>1 DEF ConstantsOK
<1>4. ASSUME NEW n \in Paths PROVE Sound(key[n], n, typed, asked)
    <2>1. /\ DOMAIN key[n] = FileFields /\ key[n].pass \in typed
          /\ IF key[n].there THEN key[n].whole ELSE ~key[n].whole /\ key[n].pass = 0
        BY <1>1, <1>2 DEF ConstantsOK
    <2> QED BY <2>1 DEF Sound
<1>5. Shaped
    BY <1>2, IdleFacts, NoneFacts DEF Shaped
<1>6. ASSUME NEW p \in Procs PROVE Ready(p)
    BY <1>2, IdleFacts, DoneFit DEF Ready, Harmless
<1> QED BY <1>3, <1>4, <1>5, <1>6 DEF Inv, DiskOK

LEMMA NextInv == ASSUME ConstantsOK PROVE Inv /\ [Next]_vars => Inv'
<1> SUFFICES ASSUME Inv, [Next]_vars PROVE Inv'
    OBVIOUS
<1>1. CASE UNCHANGED vars
    <2>1. key' = key /\ proc' = proc /\ typed' = typed /\ asked' = asked
        BY <1>1 DEF vars
    <2> QED BY <2>1 DEF Inv, Shaped, Ready
<1>2. ASSUME NEW p \in Procs, NEW j \in Jobs, run(p, j) PROVE Inv'
    BY <1>2, runInv
<1>3. ASSUME NEW p \in Procs,
             run_generate(p) \/ RemoveOld(p) \/ RemoveOldPub(p) \/ Generated(p)
             \/ write_private(p) \/ Filled(p) \/ write_public(p) \/ FilledPub(p)
      PROVE  Inv'
    BY <1>3, run_generateInv, RemoveOldInv, RemoveOldPubInv, GeneratedInv, write_privateInv,
       FilledInv, write_publicInv
<1>4. ASSUME NEW p \in Procs,
             run_host_keys(p) \/ RenamePub(p) \/ RenameKey(p) \/ run_change_passphrase(p)
             \/ run_change_comment(p) \/ replace_private(p) \/ Renamed(p)
      PROVE  Inv'
    BY <1>4, run_host_keysInv, RenamePubInv, RenameKeyInv, run_change_passphraseInv,
       run_change_commentInv, replace_privateInv, RenamedInv
<1>5. ASSUME NEW p \in Procs,
             run_extract_public(p) \/ run_export(p) \/ fingerprint_key(p) \/ run_fingerprint(p)
             \/ Killed(p)
      PROVE  Inv'
    BY <1>5, ReadersInv, KilledInv
<1> QED BY <1>1, <1>2, <1>3, <1>4, <1>5 DEF Next

(* For any number of ssh-keygen processes, files and command lines, failed *)
(* writes and kills at any point: a key file nobody was told to make anew  *)
(* holds a whole key that opens with a passphrase its owner knows          *)
(* (replace_private, run_change_passphrase, run_change_comment,            *)
(* run_host_keys).                                                         *)
THEOREM Survives == ASSUME ConstantsOK PROVE Spec => []KeySurvives
<1>1. Init => Inv
    BY InitInv
<1>2. Inv /\ [Next]_vars => Inv'
    BY NextInv
<1>3. Inv => KeySurvives
    BY DEF Inv, DiskOK, Sound, KeySurvives
<1> QED BY <1>1, <1>2, <1>3, PTL DEF Spec
=============================================================================
