--------------------------- MODULE SemanticMemory ---------------------------
(***************************************************************************)
(* Semantic memory of one topic.  An observation is remembered in three    *)
(* calls: the entries its scope sees are read, the one it supersedes is    *)
(* marked, and the new entry is inserted with the next revision.  Nothing  *)
(* joins the calls, and no index keeps revisions apart: the hash that is   *)
(* unique covers the time of writing.                                      *)
(*                                                                         *)
(* An entry has a provenance, as the route demands; a topic never has the  *)
(* hundred entries the read is limited to.                                 *)
(***************************************************************************)
EXTENDS Incidents, Sequences, FiniteSetsExt

CONSTANTS
    Accounts,    \* accounts of the organisation
    Writers,     \* concurrent requests to remember
    MaxEntries   \* bound on the entries of the topic

Global == "*"    \* the scope of an entry every account sees
ASSUME MemoryAssumption == Global \notin Accounts /\ MaxEntries \in Nat

VARIABLES
    memory,      \* semantic_memory_entries, in order of insertion
    writers      \* what each request has read, and the entry it is about to write

memoryVars == <<memory, writers>>

Scopes == Accounts \union {Global}
Statuses == {"active", "conflicted", "superseded"}
Entry == [scope: Scopes, status: Statuses, revision: Nat, supersedes: Nat, read: Nat]
NoEntry == [scope |-> Global, status |-> "active", revision |-> 0, supersedes |-> 0, read |-> 0]
Thinking == [at |-> "idle", entry |-> NoEntry]

MemoryTypeOK ==
    /\ memory \in Seq(Entry)
    /\ writers \in [Writers -> [at: {"idle", "mark", "insert"}, entry: Entry]]

MemoryInit ==
    /\ memory = <<>>
    /\ writers = [c \in Writers |-> Thinking]

\* Entries a writer of the scope reads: a global one sees only global ones.
Visible(scope) == {i \in DOMAIN memory : memory[i].scope \in {scope, Global}}

\* FAULTY variant of NextRevision: the revisions of the scope alone are counted.
NextRevisionOfScope(scope) ==
    Max({0} \union {memory[i].revision : i \in {j \in DOMAIN memory : memory[j].scope = scope}}) + 1
NextRevision(scope) == Max({0} \union {memory[i].revision : i \in Visible(scope)}) + 1

\* The target may be any entry the scope sees, superseded already or not.
Remember(c) ==
    /\ writers[c] = Thinking
    /\ Len(memory) < MaxEntries
    /\ \E scope \in Scopes : \E target \in Visible(scope) \union {0}, conflicts \in BOOLEAN :
         /\ conflicts => Visible(scope) /= {} /\ target = 0
         /\ writers' = [writers EXCEPT ![c] =
              [at |-> IF target = 0 THEN "insert" ELSE "mark",
               entry |-> [scope |-> scope,
                          status |-> IF conflicts THEN "conflicted" ELSE "active",
                          revision |-> NextRevision(scope),
                          supersedes |-> target,
                          read |-> Len(memory)]]]
    /\ UNCHANGED <<memory, incidents>>

\* FAULTY variant of MarkSuperseded: the target is left as it was.
MarkNothing(c) ==
    /\ writers[c].at = "mark"
    /\ writers' = [writers EXCEPT ![c].at = "insert"]
    /\ UNCHANGED <<memory, incidents>>
MarkSuperseded(c) ==
    /\ writers[c].at = "mark"
    /\ memory' = [memory EXCEPT ![writers[c].entry.supersedes].status = "superseded"]
    /\ \/ writers' = [writers EXCEPT ![c].at = "insert"] /\ UNCHANGED incidents
       \/ Incident /\ writers' = [writers EXCEPT ![c] = Thinking]

InsertEntry(c) ==
    /\ writers[c].at = "insert"
    /\ Len(memory) < MaxEntries
    /\ memory' = Append(memory, writers[c].entry)
    /\ writers' = [writers EXCEPT ![c] = Thinking]
    /\ UNCHANGED incidents

\* The call throws or the process dies with the work half done.
WriterLost(c) ==
    /\ writers[c].at /= "idle"
    /\ Incident
    /\ writers' = [writers EXCEPT ![c] = Thinking]
    /\ UNCHANGED memory

MemoryNext ==
    \E c \in Writers : Remember(c) \/ MarkSuperseded(c) \/ InsertEntry(c) \/ WriterLost(c)

-----------------------------------------------------------------------------
(* Properties.                                                             *)

\* An entry that supersedes another has replaced it, and what is superseded has a
\* successor, written or on its way: knowledge is withdrawn without a replacement
\* only by a call that failed halfway.
SupersessionIsWhole ==
    /\ \A j \in DOMAIN memory : memory[j].supersedes /= 0 =>
         memory[memory[j].supersedes].status = "superseded"
    /\ \A i \in DOMAIN memory : memory[i].status = "superseded" =>
         \/ \E j \in DOMAIN memory : memory[j].supersedes = i
         \/ \E c \in Writers : writers[c].at = "insert" /\ writers[c].entry.supersedes = i
         \/ incidents > 0

\* An entry has a newer revision than every entry its scope sees, except those that
\* were inserted after it had read.
RevisionsForkOnlyByOverlap ==
    \A j \in DOMAIN memory : \A i \in 1..(j - 1) :
        memory[i].scope \in {memory[j].scope, Global} /\ i <= memory[j].read
            => memory[i].revision < memory[j].revision
=============================================================================
