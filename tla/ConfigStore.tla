---------------------------- MODULE ConfigStore ----------------------------
(***************************************************************************)
(* Processes that read and change config.json (config.py,                    *)
(* commands/config_cmd.py), while it may be damaged from outside: a file     *)
(* that does not parse is copied aside once per content                      *)
(* (utils/corruption.py) and is never written over unless the user says so.  *)
(***************************************************************************)
EXTENDS Integers

CONSTANTS Writers,
          SettingKeys,         \* settings
          Values,
          Default,      \* the value each setting starts with
          Contents,     \* what a damaged file may hold
          Absent,       \* no file
          NoContent,    \* nothing damaged
          MaxRuns,      \* bound: commands run
          MaxEdits      \* bound: changes of the file from outside

Settings == [SettingKeys -> Values]
Defaults == [k \in SettingKeys |-> Default]
Nobody == "nobody"

ASSUME ConfigAssumption ==
    /\ Default \in Values
    /\ {Absent, NoContent} \cap (Contents \cup Settings) = {} /\ Nobody \notin Writers
    /\ MaxRuns \in Nat /\ MaxEdits \in Nat

VARIABLES
    file,     \* config.json
    backups,  \* copies of each damaged content
    failed,   \* contents whose copy once failed, as its command was told
    lock,     \* the holder of the file lock
    ran,      \* commands run
    edits,    \* changes from outside so far

    at,       \* what each process does
    op,       \* its command
    phase,    \* which of its loads this is: at start, in the operation, in save
    conf,     \* its configuration in memory
    bad,      \* the damaged content its last load found

    expect    \* what the commands that succeeded have made of the settings

configVars == <<file, backups, failed, lock, ran, edits, at, op, phase, conf, bad, expect>>
shared == <<file, backups, failed, expect>>
own == <<op, phase, conf, bad>>

Ops == [what : {"set"}, key : SettingKeys, value : Values]
       \cup [what : {"show", "migrate", "reset", "recover"}]

\* What load makes of a file that parses.
Parsed == IF file = Absent THEN Defaults ELSE file

ConfigInit ==
    /\ file \in {Absent, Defaults}
    /\ backups = [c \in Contents |-> 0]
    /\ failed = {} /\ lock = Nobody /\ ran = 0 /\ edits = 0
    /\ at = [p \in Writers |-> "off"] /\ op = [p \in Writers |-> [what |-> "show"]]
    /\ phase = [p \in Writers |-> 0]
    /\ conf = [p \in Writers |-> Defaults] /\ bad = [p \in Writers |-> NoContent]
    /\ expect = Defaults

Go(p, s) == at' = [at EXCEPT ![p] = s]

Quit(p) ==
    /\ Go(p, "off")
    /\ op' = [op EXCEPT ![p] = [what |-> "show"]]
    /\ phase' = [phase EXCEPT ![p] = 0]
    /\ conf' = [conf EXCEPT ![p] = Defaults]
    /\ bad' = [bad EXCEPT ![p] = NoContent]
    /\ lock' = IF lock = p THEN Nobody ELSE lock

Run(p, o) ==
    /\ at[p] = "off" /\ ran < MaxRuns
    /\ ran' = ran + 1
    /\ op' = [op EXCEPT ![p] = o]
    /\ Go(p, "load")
    /\ UNCHANGED <<shared, lock, edits, phase, conf, bad>>

\* Variant (bug): the operation trusts the configuration read at the start.
ReadOnce(p) ==
    /\ at[p] = "load"
    /\ bad' = [bad EXCEPT ![p] = IF file \in Contents THEN file ELSE NoContent]
    /\ conf' = IF phase[p] > 0 THEN conf
              ELSE [conf EXCEPT ![p] = IF file \in Contents THEN Defaults ELSE Parsed]
    /\ Go(p, IF file \notin Contents THEN "loaded" ELSE IF lock = p THEN "look" ELSE "guard")
    /\ UNCHANGED <<shared, lock, ran, edits, op, phase>>

(* load.  The configuration in memory is what the start of the program or    *)
(* set read; the load in save leaves it alone.  A damaged file is copied     *)
(* under the lock, which the process may have to take for it.                *)
ReadFile(p) ==
    /\ at[p] = "load"
    /\ bad' = [bad EXCEPT ![p] = IF file \in Contents THEN file ELSE NoContent]
    /\ conf' = IF phase[p] = 2 THEN conf
              ELSE [conf EXCEPT ![p] = IF file \in Contents THEN Defaults ELSE Parsed]
    /\ Go(p, IF file \notin Contents THEN "loaded" ELSE IF lock = p THEN "look" ELSE "guard")
    /\ UNCHANGED <<shared, lock, ran, edits, op, phase>>

(* _locked: the lock for the backup of the load at the start, without which  *)
(* there is none, or for the operation, without which the command ends.      *)
Lock(p) ==
    /\ at[p] \in {"guard", "lock"}
    /\ \/ lock = Nobody /\ lock' = p /\ Go(p, IF at[p] = "guard" THEN "look" ELSE "load")
          /\ UNCHANGED own
       \/ lock # Nobody /\ at[p] = "guard" /\ Go(p, "loaded") /\ UNCHANGED <<lock, own>>
       \/ lock # Nobody /\ at[p] = "lock" /\ Quit(p)
    /\ UNCHANGED <<shared, ran, edits>>

\* Variant (bug): one backup of any content is taken for a backup of this one.
LookAtAny(p) ==
    /\ at[p] = "look"
    /\ Go(p, IF \E c \in Contents : backups[c] > 0 THEN "loaded" ELSE "copy")
    /\ UNCHANGED <<shared, lock, ran, edits, own>>

\* existing_backup_for: is there a copy of exactly these bytes?
Look(p) ==
    /\ at[p] = "look"
    /\ Go(p, IF backups[bad[p]] > 0 THEN "loaded" ELSE "copy")
    /\ UNCHANGED <<shared, lock, ran, edits, own>>

\* preserve_corrupt_file; the copy may fail, and the load goes on.
Copy(p) ==
    /\ at[p] = "copy"
    /\ \/ backups' = [backups EXCEPT ![bad[p]] = @ + 1] /\ UNCHANGED failed
       \/ failed' = failed \cup {bad[p]} /\ UNCHANGED backups
    /\ Go(p, "loaded")
    /\ UNCHANGED <<file, lock, ran, edits, own, expect>>

(* The operation once its load is done: "show" has seen enough, the others   *)
(* take the lock and load again.  migrate and reset stop at a damaged file,  *)
(* set may refuse the value, and recover writes at once; the rest goes to    *)
(* save, which loads once more and refuses to write over a damaged file.     *)
Proceed(p) ==
    /\ at[p] = "loaded"
    /\ LET damaged == bad[p] # NoContent
           what == op[p].what
           loads(n) == /\ phase' = [phase EXCEPT ![p] = n]
                       /\ bad' = [bad EXCEPT ![p] = NoContent]
                       /\ Go(p, IF n = 1 THEN "lock" ELSE "load")
                       /\ UNCHANGED op
       IN  \/ phase[p] = 0 /\ what = "show" /\ Quit(p)
           \/ /\ phase[p] = 0 /\ what # "show"
              /\ loads(1)
              /\ lock' = IF lock = p THEN Nobody ELSE lock
              /\ UNCHANGED conf
           \/ phase[p] = 1 /\ what \in {"migrate", "reset"} /\ damaged /\ Quit(p)
           \/ phase[p] = 1 /\ what = "set" /\ Quit(p)
           \/ /\ phase[p] = 1 /\ what = "recover"
              /\ conf' = [conf EXCEPT ![p] = Defaults]
              /\ Go(p, "write")
              /\ UNCHANGED <<lock, op, phase, bad>>
           \/ /\ phase[p] = 1 /\ (what \in {"migrate", "reset"} => ~damaged) /\ what # "recover"
              /\ loads(2)
              /\ conf' = [conf EXCEPT ![p] = CASE what = "set" -> [@ EXCEPT ![op[p].key] = op[p].value]
                                             [] what = "reset" -> Defaults
                                             [] OTHER -> @]
              /\ UNCHANGED lock
           \/ phase[p] = 2 /\ damaged /\ Quit(p)
           \/ phase[p] = 2 /\ ~damaged /\ Go(p, "write") /\ UNCHANGED <<lock, own>>
    /\ UNCHANGED <<shared, ran, edits>>

(* _write_locked: the file is replaced, or the write fails and it is as it   *)
(* was.                                                                      *)
Replace(p) ==
    /\ at[p] = "write"
    /\ \/ /\ file' = conf[p]
          /\ expect' = CASE op[p].what = "set" -> [expect EXCEPT ![op[p].key] = op[p].value]
                         [] op[p].what \in {"reset", "recover"} -> Defaults
                         [] OTHER -> expect
       \/ UNCHANGED <<file, expect>>
    /\ Quit(p)
    /\ UNCHANGED <<backups, failed, ran, edits>>

\* The process is killed; the system gives its lock back.
Kill(p) ==
    /\ at[p] # "off"
    /\ Quit(p)
    /\ UNCHANGED <<shared, ran, edits>>

\* A process has had its last look at the file it is about to replace.
Committed(p) ==
    /\ at[p] \in {"look", "copy", "loaded", "write"}
    /\ phase[p] = 2 \/ (phase[p] = 1 /\ op[p].what = "recover")

(* Something else damages the file, though not in the moment between the     *)
(* last look of a process and its replacement of the file.                   *)
Corrupt(c) ==
    /\ edits < MaxEdits /\ \A p \in Writers : ~Committed(p)
    /\ edits' = edits + 1
    /\ file' = c
    /\ UNCHANGED <<backups, failed, lock, ran, at, own, expect>>

\* The user puts a good copy back, while no command is at work on the file.
Restore ==
    /\ file \in Contents /\ lock = Nobody
    /\ file' = expect
    /\ UNCHANGED <<backups, failed, lock, ran, edits, at, own, expect>>

WriterStep(p) ==
    \/ ReadFile(p) \/ Lock(p) \/ Look(p) \/ Copy(p) \/ Proceed(p) \/ Replace(p) \/ Kill(p)

ConfigNext ==
    \/ \E p \in Writers : WriterStep(p) \/ \E o \in Ops : Run(p, o)
    \/ \E c \in Contents : Corrupt(c)
    \/ Restore

ConfigSpec == ConfigInit /\ [][ConfigNext]_configVars

-----------------------------------------------------------------------------
(* Properties *)

(* Type invariant: what the variables hold, for every process.               *)
ConfigTypeOK ==
    /\ file \in {Absent} \cup Settings \cup Contents
    /\ backups \in [Contents -> Nat] /\ failed \subseteq Contents
    /\ lock \in Writers \cup {Nobody}
    /\ ran \in 0 .. MaxRuns /\ edits \in 0 .. MaxEdits
    /\ at \in [Writers -> {"off", "load", "guard", "look", "copy", "loaded", "lock", "write"}]
    /\ op \in [Writers -> Ops] /\ phase \in [Writers -> 0 .. 2]
    /\ conf \in [Writers -> Settings] /\ bad \in [Writers -> Contents \cup {NoContent}]
    /\ expect \in Settings

(* No update is lost (config.py:325-333, "two processes from losing each     *)
(* other's updates"): a file that parses holds what the commands that        *)
(* succeeded have made of it, one after another.                             *)
SettingsStick == file \notin Contents => Parsed = expect

(* A damaged file is written over only when its content is in a backup, or   *)
(* could not be copied (config.py:407-411, "The original is NEVER            *)
(* overwritten"), whoever copied it and whatever damaged it meanwhile.       *)
DamageKept ==
    [][\A p \in Writers, c \in Contents :
            at[p] = "write" /\ file = c /\ file' # c => backups[c] > 0 \/ c \in failed]_configVars
=============================================================================
