------------------------------- MODULE LiveBench -------------------------------
(***************************************************************************)
(* The benchmark client (eth2077-live-bench/src/main.rs) against a devnet  *)
(* node.  Worker threads take job numbers from one counter; under the lock *)
(* of their endpoint they ask for a nonce, which primes the node's sender  *)
(* hint, and send one transaction.  Then the main thread polls receipts.   *)
(* Endpoints are separate nodes that share nothing, so one is modelled.    *)
(* A request may be lost, or its answer; each job is tried once.           *)
(***************************************************************************)
EXTENDS DevnetLedger, FiniteSetsExt

CONSTANTS
    Worker,
    Sender,             \* worker -> its sender address
    To,
    TxCount,
    ValueWei, FundWei,
    EmptyTicks          \* bound on the ticks that mine nothing

(* What the dearest transaction of the run costs its sender. *)
MaxCost == ValueWei + TxCount - 1 + Fee

(* The arguments of a run, as the defaults have them: sending is not free, *)
(* the recipient is no sender, and the funds cover all transactions.       *)
ASSUME BenchAssumption ==
    /\ IsFiniteSet(Address) /\ IsFiniteSet(Worker) /\ None \notin Worker
    /\ Sender \in [Worker -> Address \ {To}] /\ To \in Address
    /\ TxCount \in Nat /\ ValueWei \in Nat /\ FundWei \in Nat
    /\ ValueWei + Fee > 0
    /\ FundWei >= TxCount * MaxCost

VARIABLES
    unfunded,           \* the senders still to be funded
    next_job,
    endpoint_lock,
    pc, job, nonce,     \* per worker
    submitted,          \* raw transactions whose hash came back
    polling,            \* "no", "yes" or "over"
    pending             \* submitted and not yet confirmed

clientVars == <<unfunded, next_job, endpoint_lock, pc, job, nonce, submitted, polling, pending>>
benchVars == <<ledgerVars, clientVars>>

RawTx(w) == [nonce |-> nonce[w], to |-> To, value |-> ValueWei + job[w]]

BenchInit ==
    /\ LedgerInit
    /\ unfunded = {Sender[w] : w \in Worker}
    /\ next_job = 0
    /\ endpoint_lock = None
    /\ pc = [w \in Worker |-> "fetch"]
    /\ job = [w \in Worker |-> 0]
    /\ nonce = [w \in Worker |-> 0]
    /\ submitted = {}
    /\ polling = "no"
    /\ pending = {}

-----------------------------------------------------------------------------
(* Funding precedes the workers; a failure is only noted. *)
Fund(a) ==
    /\ a \in unfunded
    /\ unfunded' = unfunded \ {a}
    /\ SetBalance(a, FundWei)
    /\ UNCHANGED <<next_job, endpoint_lock, pc, job, nonce, submitted, polling, pending>>

FundFails(a) ==
    /\ a \in unfunded
    /\ unfunded' = unfunded \ {a}
    /\ UNCHANGED <<ledgerVars, next_job, endpoint_lock, pc, job, nonce, submitted, polling, pending>>

NextJob == next_job + 1

FetchJob(w) ==
    /\ unfunded = {}
    /\ pc[w] = "fetch"
    /\ job' = [job EXCEPT ![w] = next_job]
    /\ next_job' = NextJob
    /\ pc' = [pc EXCEPT ![w] = IF next_job >= TxCount THEN "done" ELSE "lock"]
    /\ UNCHANGED <<ledgerVars, unfunded, endpoint_lock, nonce, submitted, polling, pending>>

LockEach == TRUE    \* mutant: a lock per worker instead of one per endpoint

LockFree == endpoint_lock = None

Lock(w) ==
    /\ pc[w] = "lock"
    /\ LockFree
    /\ endpoint_lock' = w
    /\ pc' = [pc EXCEPT ![w] = "nonce"]
    /\ UNCHANGED <<ledgerVars, unfunded, next_job, job, nonce, submitted, polling, pending>>

KeepLock(w) ==    \* mutant: the lock is not released
    /\ UNCHANGED endpoint_lock
    /\ pc' = [pc EXCEPT ![w] = "fetch"]

(* The guard is dropped at the end of the loop body, and by continue. *)
NextRound(w) ==
    /\ endpoint_lock' = None
    /\ pc' = [pc EXCEPT ![w] = "fetch"]

LookupNonce(w) ==
    /\ pc[w] = "nonce"
    /\ GetTransactionCount(Sender[w])
    /\ nonce' = [nonce EXCEPT ![w] = evm_db[Sender[w]].nonce]
    /\ pc' = [pc EXCEPT ![w] = "send"]
    /\ UNCHANGED <<unfunded, next_job, endpoint_lock, job, submitted, polling, pending>>

(* The request or the answer is lost. *)
LookupFails(w) ==
    /\ pc[w] = "nonce"
    /\ GetTransactionCount(Sender[w]) \/ UNCHANGED ledgerVars
    /\ NextRound(w)
    /\ UNCHANGED <<unfunded, next_job, job, nonce, submitted, polling, pending>>

Send(w) ==
    /\ pc[w] = "send"
    /\ SendAccepted(RawTx(w))
    /\ submitted' = submitted \cup {RawTx(w)}
    /\ NextRound(w)
    /\ UNCHANGED <<unfunded, next_job, job, nonce, polling, pending>>

(* The node refuses, or the request or the answer is lost.  A request with *)
(* no sender hint is refused without a change.                             *)
SendFails(w) ==
    /\ pc[w] = "send"
    /\ SendRawTransaction(RawTx(w)) \/ UNCHANGED ledgerVars
    /\ NextRound(w)
    /\ UNCHANGED <<unfunded, next_job, job, nonce, submitted, polling, pending>>

WorkerStep(w) ==
    \/ FetchJob(w)
    \/ Lock(w)
    \/ LookupNonce(w)
    \/ LookupFails(w)
    \/ Send(w)
    \/ SendFails(w)

-----------------------------------------------------------------------------
Join ==
    /\ polling = "no"
    /\ \A w \in Worker : pc[w] = "done"
    /\ polling' = "yes"
    /\ pending' = submitted
    /\ UNCHANGED <<ledgerVars, unfunded, next_job, endpoint_lock, pc, job, nonce, submitted>>

(* eth_getTransactionReceipt answers null until the transaction is mined. *)
PollReceipt(raw) ==
    /\ polling = "yes"
    /\ raw \in pending
    /\ txs[raw].block # None
    /\ pending' = pending \ {raw}
    /\ UNCHANGED <<ledgerVars, unfunded, next_job, endpoint_lock, pc, job, nonce, submitted, polling>>

(* The loop ends when nothing is pending, or at the deadline. *)
PollingEnds ==
    /\ polling = "yes"
    /\ pending = {}
    /\ polling' = "over"
    /\ UNCHANGED <<ledgerVars, unfunded, next_job, endpoint_lock, pc, job, nonce, submitted, pending>>

Deadline ==
    /\ polling = "yes"
    /\ pending # {}
    /\ polling' = "over"
    /\ UNCHANGED <<ledgerVars, unfunded, next_job, endpoint_lock, pc, job, nonce, submitted, pending>>

MinerTick ==
    /\ pending_txs # <<>> \/ current_height < EmptyTicks
    /\ Tick
    /\ UNCHANGED clientVars

-----------------------------------------------------------------------------
BenchNext ==
    \/ \E a \in Address : Fund(a) \/ FundFails(a)
    \/ \E w \in Worker : WorkerStep(w)
    \/ Join
    \/ \E raw \in pending : PollReceipt(raw)
    \/ PollingEnds
    \/ Deadline
    \/ MinerTick

(* The threads run and the node ticks and answers; the mutex owes a waiting *)
(* worker nothing while others use it, and the deadline need not pass.      *)
BenchFairness ==
    /\ WF_benchVars(\E a \in Address : Fund(a) \/ FundFails(a))
    /\ \A w \in Worker : WF_benchVars(WorkerStep(w))
    /\ WF_benchVars(Join)
    /\ WF_benchVars(\E raw \in pending : PollReceipt(raw))
    /\ WF_benchVars(PollingEnds)
    /\ WF_benchVars(MinerTick)

BenchSpec == BenchInit /\ [][BenchNext]_benchVars /\ BenchFairness

-----------------------------------------------------------------------------
Balances     == [a \in Address |-> evm_db[a].balance]
Total(f)     == MapThenSumSet(LAMBDA a : f[a], Address)
TotalBalance == Total(Balances)

(* One refused transaction empties every account of the node.  The workers *)
(* never cause that: more than one fee is lost only if some sender could   *)
(* not be funded (its account was never written) or all is lost already.   *)
LossOnlyIfUnfunded ==
    [][TotalBalance' + Fee < TotalBalance => \E w \in Worker : evm_db[Sender[w]] = NoAccount]_benchVars

(* Whatever is lost or refused, the benchmark ends by itself. *)
BenchmarkEnds == <>(polling = "over")

(* A transaction whose hash the node returned is eventually in a block. *)
SubmittedGetsMined == \A r \in Raw : r \in submitted ~> (txs[r] # None /\ txs[r].block # None)
===============================================================================
