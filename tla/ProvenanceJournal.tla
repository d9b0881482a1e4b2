------------------------- MODULE ProvenanceJournal -------------------------
(* Who changed a file: the journal hosts share per worktree (src/fovea/       *)
(* provenance-journal.ts), fed by their commits (host.ts), bridged into the   *)
(* engine (engine.ts) and turned into an attribution (core/provenance.ts).    *)
(* Hosts are processes and crash anywhere; one file stands for the worktree,  *)
(* and each host has one conversation, which may be bound again and reset.    *)
EXTENDS Naturals, Sequences, FiniteSets

CONSTANTS Hosts, Outside,       \* Outside: an editor that nothing observes
          Readers,              \* the hosts that sync
          Contents,             \* what the file may hold
          MaxRecords,           \* records the journal retains (128)
          MaxPending,           \* transitions a host keeps waiting (512)
          MaxCommits,           \* changes of the file (bounds the model)
          MaxRenewals           \* releases and resets of a host (bounds the model)

ASSUME JournalNames == Outside \notin Hosts /\ Readers \subseteq Hosts /\ 0 \in Contents
ASSUME JournalBounds == MaxRecords \in Nat \ {0} /\ MaxPending \in Nat \ {0} /\ MaxCommits \in Nat /\ MaxRenewals \in Nat

VARIABLES
  content, commits,  \* the file; its changes so far (history)
  pending,           \* by host, the transitions #journalTail still has to append
  ledger,            \* the file of the journal: sequence and records
  ledgerLock,        \* holders of the lock file: {} or the one host
  appender,          \* by host: where its append is, what it loaded
  observation,       \* by host, of its lease: bound, gap, the changes before it (since, lapsed)
  mark,              \* by host: the baseline of its conversation, what a sync read
  verdict,           \* by host: the owners its last sync named, the records it did not see
  crashed

journalVars == <<content, commits, pending, ledger, ledgerLock, appender, observation, mark, verdict, crashed>>

Empty == [sequence |-> 0, records |-> <<>>]
Watching == [bound |-> TRUE, gap |-> FALSE, since |-> 0, lapsed |-> 0, renewals |-> 0]
Resting == [pc |-> "idle", loaded |-> Empty]
Unjudged == [owners |-> {}, unseen |-> 0]
Unmarked == [known |-> FALSE, content |-> 0, sequence |-> 0, pc |-> "idle", read |-> Empty, gap |-> FALSE]

JournalInit ==
  /\ content = 0 /\ commits = <<>>
  /\ pending = [h \in Hosts |-> <<>>] /\ ledger = Empty /\ ledgerLock = {}
  /\ appender = [h \in Hosts |-> Resting] /\ observation = [h \in Hosts |-> Watching]
  /\ mark = [h \in Hosts |-> Unmarked] /\ verdict = [h \in Hosts |-> Unjudged] /\ crashed = {}

Alive(h) == h \notin crashed
Change(who, to) == [origin |-> who, before |-> content, after |-> to, at |-> Len(commits) + 1]   \* at: history
\* The append holds the observation its change was committed under (#observe), which
\* is the present one unless that began later; so it is with the lease.
Ours(h, c) == observation[h].bound /\ c.at > observation[h].since
Revoked(h, c) == c.at <= observation[h].lapsed

\* observe: the commit is copied at once and appended later; too many waiting
\* transitions are a gap, never a failure of the commit. A released lease sees none.
CommitFile(h, to) ==
  /\ Alive(h) /\ to # content /\ Len(commits) < MaxCommits
  /\ commits' = Append(commits, Change(h, to)) /\ content' = to
  /\ \/ ~observation[h].bound /\ UNCHANGED <<pending, observation>>
     \/ /\ observation[h].bound /\ Len(pending[h]) < MaxPending
        /\ pending' = [pending EXCEPT ![h] = Append(@, Change(h, to))] /\ UNCHANGED observation
     \/ /\ observation[h].bound /\ Len(pending[h]) >= MaxPending
        /\ observation' = [observation EXCEPT ![h].gap = TRUE] /\ UNCHANGED pending
  /\ UNCHANGED <<ledger, ledgerLock, appender, mark, verdict, crashed>>

EditOutside(to) ==
  /\ to # content /\ Len(commits) < MaxCommits
  /\ commits' = Append(commits, Change(Outside, to)) /\ content' = to
  /\ UNCHANGED <<pending, ledger, ledgerLock, appender, observation, mark, verdict, crashed>>

\* append: the exclusive lock file, without waiting: contention is a gap, of the
\* observation the append holds, which nobody reads once another has begun.
MissedUnmarked(h) == UNCHANGED observation   \* a mutant: a failed append is not a gap
Missed(h) == observation' = [observation EXCEPT ![h].gap = @ \/ Ours(h, Head(pending[h]))]
LockLedger(h) ==
  /\ Alive(h) /\ appender[h].pc = "idle" /\ pending[h] # <<>>
  /\ IF ledgerLock = {} /\ ~Revoked(h, Head(pending[h]))
     THEN /\ ledgerLock' = {h} /\ appender' = [appender EXCEPT ![h] = [pc |-> "loaded", loaded |-> ledger]]
          /\ UNCHANGED <<pending, observation>>
     ELSE Missed(h) /\ pending' = [pending EXCEPT ![h] = Tail(@)] /\ UNCHANGED <<ledgerLock, appender>>
  /\ UNCHANGED <<content, commits, ledger, mark, verdict, crashed>>

Extended(j, t) ==
  LET records == Append(j.records, t)
  IN [sequence |-> j.sequence + 1,
      records |-> IF Len(records) > MaxRecords THEN Tail(records) ELSE records]

\* The rename publishes; an error before it (or the revoked lease) is a gap, one
\* after it (the sync of the directory) too.
RenameLedger(h, published, error) ==
  /\ Alive(h) /\ appender[h].pc = "loaded" /\ (published \/ error)
  /\ ledger' = IF published THEN Extended(appender[h].loaded, Head(pending[h])) ELSE ledger
  /\ pending' = [pending EXCEPT ![h] = Tail(@)]
  /\ IF error THEN Missed(h) ELSE UNCHANGED observation
  /\ appender' = [appender EXCEPT ![h] = [Resting EXCEPT !.pc = "leaving"]]
  /\ UNCHANGED <<content, commits, ledgerLock, mark, verdict, crashed>>

UnlockLedger(h) ==
  /\ Alive(h) /\ appender[h].pc = "leaving"
  /\ ledgerLock' = {} /\ appender' = [appender EXCEPT ![h] = Resting]
  /\ UNCHANGED <<content, commits, pending, ledger, observation, mark, verdict, crashed>>

\* A crash leaves the lock: nobody removes it, every later append is a gap.
CrashHost(h) ==
  /\ Alive(h) /\ crashed' = crashed \cup {h}
  /\ pending' = [pending EXCEPT ![h] = <<>>] /\ appender' = [appender EXCEPT ![h] = Resting]
  /\ mark' = [mark EXCEPT ![h] = Unmarked] /\ verdict' = [verdict EXCEPT ![h] = Unjudged]
  /\ UNCHANGED <<content, commits, ledger, ledgerLock, observation>>
-----------------------------------------------------------------------------
(* The observation of a lease, and its end.                                   *)

Renewable == \A h \in Hosts : observation[h].renewals < MaxRenewals   \* the bound
\* release: the observation goes with its lease, a sync under way is abandoned; the
\* abort may cost the child, and with it the baseline.
ReleaseLease(h, childLost) ==
  /\ Alive(h) /\ observation[h].bound /\ Renewable
  /\ childLost => mark[h].pc = "read"
  /\ observation' = [observation EXCEPT ![h] = [bound |-> FALSE, gap |-> FALSE, since |-> Len(commits),
                                                lapsed |-> Len(commits), renewals |-> @.renewals + 1]]
  /\ IF childLost THEN mark' = [mark EXCEPT ![h] = Unmarked] /\ verdict' = [verdict EXCEPT ![h] = Unjudged]
     ELSE mark' = [mark EXCEPT ![h].pc = "idle", ![h].read = Empty, ![h].gap = FALSE] /\ UNCHANGED verdict
  /\ UNCHANGED <<content, commits, pending, ledger, ledgerLock, appender, crashed>>

\* bind: a lease of its own, whose observation begins without a gap.
BindLease(h) ==
  /\ Alive(h) /\ ~observation[h].bound
  /\ observation' = [observation EXCEPT ![h].bound = TRUE, ![h].since = Len(commits)]
  /\ UNCHANGED <<content, commits, pending, ledger, ledgerLock, appender, mark, verdict, crashed>>

\* repo.reset forgets the baseline, and the observation of a lease that stays.
ResetObservation(h) ==
  /\ Alive(h) /\ observation[h].bound /\ mark[h].pc = "idle" /\ Renewable
  /\ observation' = [observation EXCEPT ![h].gap = FALSE, ![h].since = Len(commits), ![h].renewals = @ + 1]
  /\ mark' = [mark EXCEPT ![h] = Unmarked] /\ verdict' = [verdict EXCEPT ![h] = Unjudged]
  /\ UNCHANGED <<content, commits, pending, ledger, ledgerLock, appender, crashed>>
-----------------------------------------------------------------------------
(* A sync: the journal is read by the host once its own tail is written, the  *)
(* source is captured by the engine later.  A journal that cannot be read is  *)
(* a gap, of this sync and of the observation; the engine is sent none.       *)
ReadLedger(h, failed) ==
  /\ h \in Readers /\ Alive(h) /\ mark[h].pc = "idle" /\ pending[h] = <<>> /\ appender[h].pc = "idle"
  /\ observation[h].bound
  /\ observation' = [observation EXCEPT ![h].gap = @ \/ failed]
  /\ mark' = [mark EXCEPT ![h].pc = "read", ![h].read = IF failed THEN Empty ELSE ledger,
                          ![h].gap = observation[h].gap \/ failed]
  /\ UNCHANGED <<content, commits, pending, ledger, ledgerLock, appender, verdict, crashed>>

\* Records trimmed away, or a journal that went back: a gap (bridgeProvenance).
Gapped(m) == \/ m.gap \/ m.sequence > m.read.sequence
             \/ m.sequence < m.read.sequence - Len(m.read.records)
Later(m) == LET first == m.read.sequence - Len(m.read.records)
            IN SubSeq(m.read.records, IF m.sequence > first THEN m.sequence - first + 1 ELSE 1, Len(m.read.records))

\* ownersForTransition: who made the chains from the old content to the new.
Chained(states, r) ==
  IF states[r.before].reached
  THEN [states EXCEPT ![r.after] = [reached |-> TRUE,
          owners |-> @.owners \cup states[r.before].owners \cup {r.origin}]]
  ELSE states
Unchained(before) == [c \in Contents |-> [reached |-> c = before, owners |-> {}]]
OwnersForTransition(records, before, after) ==
  LET upTo[n \in 0..Len(records)] ==
        IF n = 0 THEN Unchained(before) ELSE Chained(upTo[n - 1], records[n])
  IN upTo[Len(records)][after].owners

CaptureSource(h) ==
  /\ Alive(h) /\ mark[h].pc = "read"
  /\ LET m == mark[h]
         named == m.known /\ content # m.content /\ ~Gapped(m)
     IN /\ verdict' = [verdict EXCEPT ![h] = IF named
             THEN [owners |-> OwnersForTransition(Later(m), m.content, content),
                   unseen |-> m.read.sequence - m.sequence - Len(Later(m))]
             ELSE Unjudged]
        /\ mark' = [mark EXCEPT ![h] = [Unmarked EXCEPT !.known = TRUE, !.content = content,
                      !.sequence = m.read.sequence, !.gap = m.known /\ Gapped(m)]]
  /\ UNCHANGED <<content, commits, pending, ledger, ledgerLock, appender, observation, crashed>>

JournalNext ==
  \/ \E h \in Hosts : \/ \E to \in Contents : CommitFile(h, to)
                      \/ LockLedger(h) \/ UnlockLedger(h) \/ CrashHost(h)
                      \/ \E published, error \in BOOLEAN : RenameLedger(h, published, error)
                      \/ \E childLost \in BOOLEAN : ReleaseLease(h, childLost)
                      \/ BindLease(h) \/ ResetObservation(h)
                      \/ \E failed \in BOOLEAN : ReadLedger(h, failed)
                      \/ CaptureSource(h)
  \/ \E to \in Contents : EditOutside(to)

JournalSpec == JournalInit /\ [][JournalNext]_journalVars
-----------------------------------------------------------------------------
(* Properties.                                                                *)

Among(c, s) == \E i \in 1..Len(s) : s[i] = c
AppendedOnce(s) == \A i, j \in 1..Len(s) : i < j /\ s[i].origin = s[j].origin => s[i].at < s[j].at

\* Whatever crashes, is released or fails: no change of a host is appended twice,
\* after a later one of its own, or once a later one was. And each change a live host
\* committed under its present observation is in the journal, waits for it, was trimmed
\* with all of its own before it, or that observation has a gap: contention,
\* a lock a crash left, a full backlog or a failed write loses none in silence.
\* (What an observation that was released or reset still owed is not told.)
CommitsAccounted ==
  /\ Len(ledger.records) <= MaxRecords /\ Len(ledger.records) <= ledger.sequence
  /\ AppendedOnce(ledger.records) /\ \A h \in Hosts : AppendedOnce(pending[h])
  /\ \A h \in Hosts : \A i \in 1..Len(ledger.records), j \in 1..Len(pending[h]) :
       ledger.records[i].origin = h => ledger.records[i].at < pending[h][j].at
  /\ \A h \in Hosts, n \in 1..Len(commits) :
       Alive(h) /\ ~observation[h].gap /\ commits[n].origin = h /\ Ours(h, commits[n]) =>
         \/ Among(commits[n], ledger.records) \/ Among(commits[n], pending[h])
         \/ /\ ledger.sequence > Len(ledger.records)
            /\ \A i \in 1..Len(ledger.records) :
                 ledger.records[i].origin = h => ledger.records[i].at > n
  /\ \A h \in Hosts : appender[h].pc = "loaded" => ledgerLock = {h} /\ appender[h].loaded = ledger

\* Authorship is never made up: every record since the baseline was seen, an
\* owner a sync names committed a change, and one of them wrote the content it
\* captured.
AttributionSound ==
  \A h \in Hosts :
    LET owners == verdict[h].owners
    IN /\ verdict[h].unseen = 0
       /\ \A o \in owners : \E n \in 1..Len(commits) : commits[n].origin = o
       /\ owners # {} => \E n \in 1..Len(commits) :
            commits[n].after = mark[h].content /\ commits[n].origin \in owners

\* A live host's commits under its present observation are in the journal in order,
\* wait for it or are told as a gap, and a sync names no owner who did not write.
JournalTrue == CommitsAccounted /\ AttributionSound
=============================================================================
