----------------------------- MODULE RecordStore -----------------------------
(***************************************************************************)
(* What a file of records promises to the processes that share it: every   *)
(* change of a record is one atomic step, is counted by the record's       *)
(* revision, and is one of four kinds.  This is the abstract specification *)
(* that RecordFile, the code's system calls, is shown to implement.        *)
(***************************************************************************)
EXTENDS Integers

CONSTANTS Klass,      \* "user" or "profile": the subclass of rms_t
          NumRecs,    \* records in the file
          Payloads,   \* what a caller may store in a record
          Blank,      \* the payload of a slot nobody has used
          Perm        \* the records the file is born with and keeps

Recs == 1 .. NumRecs

StoreAssumption ==
    /\ Klass \in {"user", "profile"}
    /\ NumRecs \in Nat \ {0}
    /\ Perm \subseteq Recs
    /\ Blank \in Payloads

Flags == {"inactive", "deleted", "perm"}

Record == [flags : SUBSET Flags, rev : Nat, who : Payloads]

VARIABLE file

(***************************************************************************)
(* The slot test of an add: _user_add looks for US_INACTIVE, _profile_add  *)
(* for PF_DELETED.                                                         *)
(***************************************************************************)
UserVacant(d) == "inactive" \in d.flags
ProfileVacant(d) == "deleted" \in d.flags
Vacant(d) == IF Klass = "user" THEN UserVacant(d) ELSE ProfileVacant(d)

(***************************************************************************)
(* The file once it is created: _user_init's permanent accounts followed   *)
(* by _user_extend's inactive ones; _profile_extend's deleted ones, with   *)
(* no permanent records.  All are of revision 1.                           *)
(***************************************************************************)
UserBorn(r) ==
    [flags |-> IF r \in Perm THEN {"perm"} ELSE {"inactive"},
     rev |-> 1, who |-> Blank]

ProfileBorn(r) == [flags |-> {"deleted"}, rev |-> 1, who |-> Blank]

Born == [r \in Recs |-> IF Klass = "user" THEN UserBorn(r) ELSE ProfileBorn(r)]

(***************************************************************************)
(* Deleting a record: _user_del marks the record, _profile_del also wipes  *)
(* it.                                                                     *)
(***************************************************************************)
\* Mistaken form of UserDeleted: the revision is left as it was.
UserDeletedUncounted(d) == [d EXCEPT !.flags = @ \cup {"deleted"}]

UserDeleted(d) ==
    [flags |-> d.flags \cup {"deleted"}, rev |-> d.rev + 1, who |-> d.who]

ProfileDeleted(d) ==
    [flags |-> d.flags \cup {"deleted"}, rev |-> d.rev + 1, who |-> Blank]

Deleted(d) == IF Klass = "user" THEN UserDeleted(d) ELSE ProfileDeleted(d)

\* Only _user_del protects a record, by its US_PERM flag.
Protected(d) == Klass = "user" /\ "perm" \in d.flags

-----------------------------------------------------------------------------
Changed(r, d) == file' = [file EXCEPT ![r] = d]

\* A caller whose copy is current replaces the payload.
Update(r) == \E w \in Payloads :
    Changed(r, [flags |-> file[r].flags, rev |-> file[r].rev + 1, who |-> w])

\* A caller whose copy is stale writes back what is on disk.
Keep(r) == Changed(r, [file[r] EXCEPT !.rev = @ + 1])

Remove(r) == ~ Protected(file[r]) /\ Changed(r, Deleted(file[r]))

\* A new record takes a vacant slot that nobody has ever written.
Claim(r) == \E w \in Payloads :
    /\ Vacant(file[r])
    /\ file[r].rev = 1
    /\ Changed(r, [flags |-> {}, rev |-> file[r].rev + 1, who |-> w])

Init == file = Born

Next == \E r \in Recs : Update(r) \/ Keep(r) \/ Remove(r) \/ Claim(r)

Spec == Init /\ [][Next]_file
=============================================================================
