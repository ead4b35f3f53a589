------------------------------ MODULE BlockTree ------------------------------
(***************************************************************************)
(* The blocks that can reach a node and what executing them does.          *)
(*                                                                         *)
(* A block is identified by its header hash.  The header commits to the    *)
(* parent hash, the timeslot, the extrinsic and the state root the author  *)
(* saw (models/block.py, class Header), so all of these are functions of   *)
(* the hash.  State is a set of keys: component keys, one per state        *)
(* component, and service keys, which the service accounts own.  A state   *)
(* root is modelled by the whole state it commits to (merkle.py).          *)
(***************************************************************************)
EXTENDS Naturals, FiniteSets

CONSTANTS
    Block,      \* header hashes of the blocks that can exist
    Genesis,    \* the header with no parent
    Zero,       \* bytes(32): the parent of Genesis and the temporary hash
    None,       \* Python's None
    Missing,    \* "no such key" in a Python dictionary
    Absent,     \* no value stored under a key; ItemStatus.deleted in a write
    Untouched,  \* a key a change set does not write
    CompKey,    \* keys of state components
    TimeKey,    \* the component key of the timeslot
    SvcKey,     \* keys of service accounts
    Val,        \* values
    Parent,     \* header.parent
    Slot,       \* header.timeslot
    Height,     \* length of the hash chain from Genesis
    Ancestry,   \* a block together with all its ancestors
    Writes,     \* what the state transition functions assign
    Post,       \* the posterior state of each block
    PriorRoot,  \* header.parent_state_root
    Defect      \* where in the state transition a faulty block is caught

Key == CompKey \cup SvcKey
Hash == Block \cup {Zero}

\* A posterior state, and a change set over it.
State == [Key -> Val \cup {Absent}]
Changes == [Key -> Val \cup {Absent, Untouched}]
NoChanges == [k \in Key |-> Untouched]

\* The state a change set makes of a state.
Apply(changes, state) ==
    [k \in Key |-> IF changes[k] = Untouched THEN state[k] ELSE changes[k]]

\* The component part of a state, which a JamState object holds decoded.
Components(state) == [k \in CompKey |-> state[k]]

\* Sentinels differ from each other and from data.
ASSUME SentinelAssumption ==
    /\ None \notin Block /\ Zero \notin Block /\ Missing \notin Hash
    /\ None # Zero /\ None # Missing
    /\ Absent \notin Val /\ Untouched \notin Val \cup {Absent}
    /\ Missing \notin Changes

\* Hash chaining: parents are older, and only Genesis names bytes(32).
ASSUME TreeAssumption ==
    /\ Genesis \in Block
    /\ Parent \in [Block -> Hash]
    /\ Slot \in [Block -> Val]
    /\ Val \subseteq Nat
    /\ Height \in [Block -> Nat]
    /\ Parent[Genesis] = Zero
    /\ \A b \in Block \ {Genesis} :
          Parent[b] \in Block /\ Height[Parent[b]] < Height[b]

\* Ancestry is the reflexive and transitive closure of Parent.
ASSUME AncestryAssumption ==
    /\ Ancestry \in [Block -> SUBSET Block]
    /\ Ancestry[Genesis] = {Genesis}
    /\ \A b \in Block \ {Genesis} : Ancestry[b] = {b} \cup Ancestry[Parent[b]]
    /\ \A b \in Block : \A a \in Ancestry[b] :
          /\ Ancestry[a] \subseteq Ancestry[b]
          /\ Height[a] <= Height[b]
          /\ (Height[a] = Height[b] => a = b)
    /\ \A b \in Block : \A a, c \in Ancestry[b] :
          a \in Ancestry[c] \/ c \in Ancestry[a]

\* Component values are overwritten and never deleted; the timeslot component
\* is the slot of the block (state/components.py, class Timeslot).
ASSUME StateAssumption ==
    /\ CompKey \cap SvcKey = {}
    /\ TimeKey \in CompKey
    /\ Writes \in [Block -> Changes]
    /\ \A b \in Block : /\ Writes[b][TimeKey] = Slot[b]
                        /\ \A k \in CompKey : Writes[b][k] # Absent
    /\ Post \in [Block -> State]
    /\ Post[Genesis][TimeKey] \in Val
    /\ \A b \in Block \ {Genesis} : Post[b] = Apply(Writes[b], Post[Parent[b]])
    /\ \A b \in Block : Defect[b] \in {"none", "stf", "late"}

-----------------------------------------------------------------------------
\* What the Gray Paper asks of a block that extends its parent.
Valid(b) ==
    /\ b # Genesis
    /\ Slot[b] > Slot[Parent[b]]
    /\ PriorRoot[b] = Post[Parent[b]]
    /\ Defect[b] = "none"

\* The overlay of a block executed on the state of its parent: components that
\* changed, and every service key the transition wrote.
Delta(b) ==
    [k \in Key |->
        IF k \in CompKey /\ Post[b][k] = Post[Parent[b]][k] THEN Untouched
        ELSE Writes[b][k]]

\* A state root names one block's posterior state: recent history holds the
\* header hash, so two blocks share a root only if a hash collides.  A header
\* that claims a wrong prior root claims one no known block has.
RootsNameBlocks ==
    \A b, c \in Block : PriorRoot[b] = Post[c] => c = Parent[b]
=============================================================================
