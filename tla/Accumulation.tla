----------------------------- MODULE Accumulation -----------------------------
(***************************************************************************)
(* Accumulation of a block (state/components.py, class Services, and       *)
(* hostcalls/invocation.py): rounds in which services run on copies of the *)
(* same state, the merge of what they changed, deferred transfers to the   *)
(* next round, and the preimages of the block's extrinsic at the end.      *)
(*                                                                         *)
(* A service runs host call by host call.  Since no service sees another   *)
(* before the merge, they run one after the other, as they do without the  *)
(* thread pool.                                                            *)
(***************************************************************************)
EXTENDS ServiceAccounts

CONSTANTS
    Accounts0,   \* the function from keys to values at the start
    Slot0,       \* slot of the last block before
    Worker,      \* services that reports may name
    Late,        \* services whose reports may not fit in the first round
    Program,     \* per service, the host calls its code may make
    Amount,      \* amounts of transfers
    UpgradeCode, \* codes that upgrade may set
    Offset,      \* deposit offsets that new may ask for
    ValueSize,   \* sizes of values that write may store, 0 included
    FirstId,     \* ids from which the search for a new one may start
    MaxSlot,     \* bound: the last slot of a behaviour
    MaxCalls     \* bound: successful host calls in a behaviour

\* The accounts are sound at the start, and there are so many public ids that no
\* search for a free one comes back to where it started.
ASSUME AccumulationAssumption ==
    /\ DOMAIN Accounts0 = Key /\ \A s \in Service : Sound(Accounts0, s)
    /\ Slot0 \in Nat /\ MaxSlot \in Nat /\ MaxCalls \in Nat
    /\ Worker \cup Late \subseteq Service /\ FirstId \subseteq Public
    /\ Amount \cup Offset \cup ValueSize \subseteq Nat
    /\ UpgradeCode \subseteq Hash \cup Service
    /\ Cardinality({s \in Public : Exists(Accounts0, s)}) + MaxCalls
          <= PublicIds - (42 % PublicIds)

VARIABLES
    db,          \* committed values (of the transaction of this block)
    slot,        \* timeslot
    phase,       \* "idle", "round", "refused" or "raised"
    inbox,       \* deferred transfers of this round
    todo,        \* services that still have to run in this round
    run,         \* the running invocation: [s, x, y], or Missing
    outputs,     \* contexts of the services that have run in this round
    sent,        \* their deferred transfers, in their order
    detached,    \* services of the ServicesState object of this block
    extrinsic,   \* preimages of the block's extrinsic
    calls        \* host calls so far

vars == <<db, slot, phase, inbox, todo, run, outputs, sent, detached, extrinsic, calls>>

Ran == DOMAIN outputs

ContextOK(c) ==
    /\ DOMAIN c.pend \subseteq Key /\ c.newId \in Public
    /\ \A s \in Service : Acct(s) \in DOMAIN c.pend => c.pend[Acct(s)] \in Account \cup {Missing}
    /\ c.provided \subseteq Service \X Hash

\* Values, contexts and histories of at most three slots have their types.
TypeOK ==
    /\ DOMAIN db = Key /\ slot \in Slot0 .. MaxSlot
    /\ \A s \in Service : db[Acct(s)] \in Account \cup {Missing}
    /\ \A s \in Service, r \in Request :
          db[Avail(s, r)] # Missing => Len(db[Avail(s, r)]) \in 0 .. 3
    /\ phase \in {"idle", "round", "refused", "raised"}
    /\ todo \subseteq Service /\ detached \subseteq Service
    /\ run # Missing => run.s \in Service /\ ContextOK(run.x) /\ ContextOK(run.y)
    /\ \A s \in Ran : ContextOK(outputs[s])

Init ==
    /\ db = Accounts0 /\ slot = Slot0 /\ phase = "idle" /\ calls = 0
    /\ inbox = <<>> /\ todo = {} /\ run = Missing /\ outputs = <<>> /\ sent = <<>>
    /\ detached = {} /\ extrinsic = {}

-----------------------------------------------------------------------------
\* is_preimage_needed: requested, and not there yet.
Needed == {p \in Service \X Hash : /\ db[Blob(p[1], p[2])] = Missing
                                   /\ db[Avail(p[1], Answerable(p[2]))] = <<>>}

\* A block with work for the services in S and an extrinsic with preimages.
StartBlock(t, S, preimages) ==
    /\ phase = "idle" /\ t > slot
    /\ preimages \subseteq Needed
    /\ slot' = t /\ phase' = "round" /\ todo' = S /\ extrinsic' = preimages
    /\ detached' = {} /\ inbox' = <<>>
    /\ UNCHANGED <<db, run, outputs, sent, calls>>

Amounts(xfers) == [i \in DOMAIN xfers |-> xfers[i].amount]
Received(s) == SumFunctionOnSet(Amounts(inbox), {i \in DOMAIN inbox : inbox[i].to = s})

\* pvm_invoke_accumulate before the code runs: transfers are credited.
Credited(s, newId) ==
    IF Exists(db, s) /\ \E i \in DOMAIN inbox : inbox[i].to = s
    THEN WithAccount(Context(newId), s, [db[Acct(s)] EXCEPT !.bal = @ + Received(s)])
    ELSE Context(newId)
Runnable(s) ==
    Exists(db, s) /\ db[Acct(s)].code \in Hash /\ db[Blob(s, db[Acct(s)].code)] # Missing

\* The next service of the round starts; the hash that gives its first new id
\* may be any.  Without account or code it is done already.
Invoke(hash) ==
    /\ phase = "round" /\ run = Missing /\ todo # {}
    /\ LET s == Min(todo)
           c == Credited(s, CheckServiceId(db, hash))
       IN  /\ todo' = todo \ {s}
           /\ IF Runnable(s)
              THEN run' = [s |-> s, x |-> c, y |-> c] /\ UNCHANGED outputs
              ELSE outputs' = Patched(Only(s, c), outputs) /\ UNCHANGED run
    /\ UNCHANGED <<db, slot, phase, inbox, sent, detached, extrinsic, calls>>

\* A successful host call: the context x becomes c.
Call(name, c) ==
    /\ run # Missing /\ calls < MaxCalls /\ name \in Program[run.s]
    /\ run' = [run EXCEPT !.x = c] /\ calls' = calls + 1
    /\ UNCHANGED <<db, slot, phase, inbox, todo, outputs, sent, detached, extrinsic>>

View == Patched(run.x.pend, db)

HcTransfer == \E d \in Service, amount \in Amount :
    /\ run # Missing /\ CanTransfer(View, run.s, d, amount)
    /\ Call("transfer", Transfer(View, run.x, run.s, d, amount))
HcNew == \E r \in Request, offset \in Offset, i \in Service :
    /\ run # Missing /\ CanNew(View, run.s, r, offset, i)
    /\ Call("new", New(View, run.x, run.s, r, offset, i))
HcUpgrade == \E code \in UpgradeCode :
    /\ run # Missing
    /\ Call("upgrade", Upgrade(View, run.x, run.s, code))
HcEject == \E d \in Service, r \in Request :
    /\ run # Missing /\ CanEject(View, run.s, d, r, slot)
    /\ Call("eject", Eject(View, run.x, run.s, d, r))
HcWrite == \E k \in Item, size \in ValueSize :
    /\ run # Missing /\ CanWrite(View, run.s, k, size)
    /\ Call("write", Write(View, run.x, run.s, k, size))
HcSolicit == \E r \in Request :
    /\ run # Missing /\ CanSolicit(View, run.s, r)
    /\ Call("solicit", Solicit(View, run.x, run.s, r, slot))
HcForget == \E r \in Request :
    /\ run # Missing /\ CanForget(View, run.s, r, slot)
    /\ Call("forget", Forget(View, run.x, run.s, r, slot))
HcProvide == \E d \in Service, h \in Hash :
    /\ run # Missing /\ CanProvide(View, run.x, d, h)
    /\ Call("provide", Provide(run.x, d, h))
HcCheckpoint ==
    /\ run # Missing /\ "checkpoint" \in Program[run.s] /\ run.y # run.x
    /\ run' = [run EXCEPT !.y = run.x]
    /\ UNCHANGED <<db, slot, phase, inbox, todo, outputs, sent, detached, extrinsic, calls>>

\* The code halts, or panics or runs out of gas.
Finish(c) ==
    /\ outputs' = Patched(Only(run.s, c), outputs) /\ run' = Missing
    /\ sent' = sent \o c.xfers
    /\ UNCHANGED <<db, slot, phase, inbox, todo, detached, extrinsic, calls>>
Halt == run # Missing /\ Finish(run.x)
\* As if the transfers after the checkpoint survived a panic.
PanicKeepsTransfers == run # Missing /\ Finish([run.y EXCEPT !.xfers = run.x.xfers])
Panic == run # Missing /\ Finish(run.y)

-----------------------------------------------------------------------------
(* parallel_accumulation after all services have run.                      *)

Pending(w) == DOMAIN outputs[w].pend
Touched == UNION {Pending(w) : w \in Ran}
Deleted ==
    {s \in Service : /\ Exists(db, s)
                     /\ \E w \in Ran : Acct(s) \in Pending(w) /\ outputs[w].pend[Acct(s)] = Missing}
Creates(w, s) ==
    ~ Exists(db, s) /\ Acct(s) \in Pending(w) /\ outputs[w].pend[Acct(s)] # Missing
ConflictingIds == \E s \in Service : \E w1, w2 \in Ran : w1 # w2 /\ Creates(w1, s) /\ Creates(w2, s)

\* The output whose value of a key is taken: a service's own, or its creator's.
Takes(w, key) ==
    /\ key \in Pending(w)
    /\ Creates(w, Owner(key)) \/ (Owner(key) = w /\ Exists(db, w))
\* As if only the account of an ejected service were deleted.
MergedKeepsMaps ==
    [key \in {k \in Touched : k \in {Acct(s) : s \in Deleted} \/ \E w \in Ran : Takes(w, k)} |->
        IF Owner(key) \in Deleted THEN Missing
        ELSE outputs[CHOOSE w \in Ran : Takes(w, key)].pend[key]]
Merged ==
    [key \in {k \in Touched : Owner(k) \in Deleted \/ \E w \in Ran : Takes(w, k)} |->
        IF Owner(key) \in Deleted THEN Missing
        ELSE outputs[CHOOSE w \in Ran : Takes(w, key)].pend[key]]

\* Provided preimages that are requested once all is merged.
Provisions(values) ==
    {p \in UNION {outputs[w].provided : w \in Ran} :
        Exists(values, p[1]) /\ values[Avail(p[1], Answerable(p[2]))] = <<>>}
WithPreimages(values, preimages) ==
    [key \in Key |->
        IF \E p \in preimages : key = Avail(p[1], Answerable(p[2])) THEN <<slot>>
        ELSE IF \E p \in preimages : key = Blob(p[1], p[2]) THEN TRUE
        ELSE values[key]]

\* Accounts of the ServicesState object, and add_pending_changes failing on a
\* value of a service that is not among them: the block is then abandoned and
\* the behaviour ends.
Detached(merged, provisions) ==
    (detached \cup {s \in Service : Acct(s) \in DOMAIN merged}
              \cup {p[1] : p \in provisions}) \ Deleted
AddPendingRaises(merged, there) ==
    \E key \in DOMAIN merged :
        key[1] # "acct" /\ merged[key] # Missing /\ Owner(key) \notin there

MergeWith(merged, provisions, S) ==
    /\ db' = WithPreimages(Patched(merged, db), provisions)
    /\ detached' = Detached(merged, provisions)
    /\ phase' = IF AddPendingRaises(merged, detached') THEN "raised" ELSE phase
    /\ inbox' = sent /\ todo' = S \cup {sent[i].to : i \in DOMAIN sent}

\* The next round runs the receivers of transfers, and the services in S of
\* reports that did not fit in the gas of this round.
MergeRound(S) ==
    /\ phase = "round" /\ todo = {} /\ run = Missing /\ Ran # {}
    /\ IF ConflictingIds
       THEN phase' = "refused" /\ UNCHANGED <<db, inbox, todo, detached>>
       ELSE MergeWith(Merged, Provisions(Patched(Merged, db)), S)
    /\ outputs' = <<>> /\ sent' = <<>>
    /\ UNCHANGED <<slot, run, extrinsic, calls>>

\* No reports and no transfers are left: state_transition_after_preimages.
EndBlock ==
    /\ phase = "round" /\ todo = {} /\ run = Missing /\ Ran = {}
    /\ db' = WithPreimages(db, extrinsic \cap Needed)
    /\ phase' = "idle" /\ extrinsic' = {} /\ inbox' = <<>> /\ detached' = {}
    /\ UNCHANGED <<slot, todo, run, outputs, sent, calls>>

Block ==
    \E t \in slot + 1 .. MaxSlot, S \in SUBSET Worker,
       preimages \in SUBSET Needed : StartBlock(t, S, preimages)

Next ==
    \/ Block
    \/ \E hash \in FirstId : Invoke(hash)
    \/ HcTransfer \/ HcNew \/ HcUpgrade \/ HcEject \/ HcWrite
    \/ HcSolicit \/ HcForget \/ HcProvide \/ HcCheckpoint
    \/ Halt \/ Panic
    \/ (\E S \in SUBSET Late : MergeRound(S)) \/ EndBlock

Spec == Init /\ [][Next]_vars

-----------------------------------------------------------------------------
\* The footprint that the host calls keep up in an account is exactly that of
\* its storage items and preimage requests, whatever the services of a round
\* changed in parallel and however their invocations ended.
FootprintIsExact == \A s \in Service : Exists(db, s) => ExactFootprint(db, s)

\* After every merge each account has the balance that its footprint requires:
\* the checks against threshold_balance in transfer, new, write and solicit
\* also suffice together.
Solvent == \A s \in Service : Exists(db, s) => CoversThreshold(db, s)

\* _merge_accumulation_service_changes and the provisions after it leave
\* nothing behind for a service that is gone, and store no preimage whose
\* request is open or gone.  (An answered request may have lost its preimage:
\* hc_forget deletes that of the hash with a request of any length.)
NoOrphans ==
    /\ \A key \in Key : db[key] # Missing => Exists(db, Owner(key))
    /\ \A s \in Service : Tidy(db, s)

Wealth ==
    SumFunction([s \in {x \in Service : Exists(db, x)} |-> db[Acct(s)].bal])
    + SumFunction(Amounts(inbox))

\* Accounts that a service ejected and made again in this round: the merge
\* keeps the account as it was, and the ejecting service what it gained.
Recreated ==
    {p \in Ran \X Service : /\ p[1] # p[2] /\ Exists(db, p[2]) /\ Acct(p[2]) \in Pending(p[1])
                           /\ outputs[p[1]].pend[Acct(p[2])] # Missing}
Gained ==
    SumFunction([p \in Recreated |->
        db[Acct(p[2])].bal - outputs[p[1]].pend[Acct(p[2])].bal])
Merges == Ran # {} /\ Ran' = {} /\ phase' # "refused"

\* Balances plus deferred transfers are kept over rounds of transfers, new
\* services, ejections, checkpoints and panics.  They shrink only when the
\* receiver of a transfer no longer exists, and grow only by what the survival
\* of a recreated account gives its ejector, to the last unit.
WealthIsKept ==
    [][ LET gained == IF Merges THEN Gained ELSE 0 IN
        /\ Wealth' <= Wealth + gained
        /\ (\A i \in DOMAIN inbox : Exists(db, inbox[i].to) /\ Exists(db', inbox[i].to))
              => Wealth' = Wealth + gained ]_vars

\* The service changed a request for the hash that names another length.
OtherLengthChanged(s, h) ==
    s \in Ran /\ \E r \in Request : /\ r[1] = h /\ r # Answerable(h)
                                   /\ Avail(s, r) \in Pending(s)

\* What historical_preimage_lookup answers for an earlier slot stays for
\* Expunge slots, as refine and audit on other nodes assume: no becomes yes
\* never, and yes becomes no only in a round in which the service itself
\* solicits or forgets the hash under another length, since the first branch
\* of hc_forget then deletes a preimage that is not its own.
LookupIsStable ==
    [][ \A s \in Service, h \in Hash : \A t \in slot' - Expunge .. slot - 1 :
           Exists(db, s) /\ Exists(db', s) =>
              /\ Lookup(db', s, h, t) => Lookup(db, s, h, t)
              /\ Lookup(db, s, h, t) => Lookup(db', s, h, t) \/ OtherLengthChanged(s, h) ]_vars

\* add_pending_changes finds the account of every map it materializes, so that
\* the accumulation of a block is never abandoned half way.
MapsFindAccount == phase # "raised"
=============================================================================
