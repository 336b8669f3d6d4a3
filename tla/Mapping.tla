------------------------------- MODULE Mapping -------------------------------
(***************************************************************************)
(* From labelled readings to a stored field and a decoded value.  diffmap  *)
(* solves readings of one input and saves the field; the map_gui page      *)
(* labels bits; the dashboard saves what its admin posts.  All write the   *)
(* one signal store the live decoders of the dashboard read.               *)
(***************************************************************************)
EXTENDS SignalStore

CONSTANTS
  Shown,        \* CarStates -> what the reference tool shows
  Posted,       \* the fields an admin of the dashboard may post
  Names,        \* names given to fields
  MaxSamples    \* bound: readings of one field

ASSUME MappingAssumption ==
  /\ {"diffmap", "map_gui"} \subseteq Writers
  /\ CarStates = DOMAIN Shown
  /\ MaxSamples \in Nat

VARIABLES
  samples,     \* diffmap: labelled readings of the field being mapped
  proposal     \* diffmap: the field that solves them

diffVars == <<samples, proposal>>
mappingVars == <<diffVars, storeVars>>

MappingInit == StoreInit /\ samples = {} /\ proposal = NoField

-----------------------------------------------------------------------------
(***************************************************************************)
(* diffmap, one thread: the input is held while a block is read, in which  *)
(* an identifier that fails is left out, and its label is typed; without a *)
(* label the field is solved and, if the user likes, saved.                *)
(***************************************************************************)
Prompting == jobs["diffmap"].at = "idle"

Reading ==
  /\ Prompting
  /\ proposal = NoField
  /\ Cardinality(samples) < MaxSamples
  /\ \E car \in CarStates : \E answered \in SUBSET DOMAIN BlockOf[car] :
       samples' = samples \union
         {[label |-> Shown[car], block |-> [lid \in answered |-> BlockOf[car][lid]]]}
  /\ UNCHANGED <<proposal, storeVars>>

SolveLabel ==
  /\ Prompting
  /\ proposal = NoField
  /\ samples # {}
  /\ \E name \in Names : proposal' = Solve(samples, name)
  /\ samples' = IF proposal' = NoField THEN {} ELSE samples
  /\ UNCHANGED storeVars

SaveCandidate ==
  /\ proposal # NoField
  /\ Save("diffmap", <<Upsert(proposal)>>)
  /\ samples' = {} /\ proposal' = NoField

Decline ==
  /\ proposal # NoField
  /\ samples' = {} /\ proposal' = NoField
  /\ UNCHANGED storeVars

-----------------------------------------------------------------------------
(***************************************************************************)
(* A click on a bit of the page drops the bit's label and, with a name,    *)
(* saves the new one: two rewrites of the store.                           *)
(***************************************************************************)
BitField(key, name) ==
  Field(name, key[1], key[2], {key[3]},
        [raw \in {{}, {key[3]}} |-> IF raw = {} THEN "off" ELSE "on"])

Label ==
  /\ \E car \in CarStates : \E key \in BitsOf(BlockOf[car]) :
       \/ Save("map_gui", <<Removal(BitField(key, "none"))>>)
       \/ \E name \in Names :
            Save("map_gui", <<Removal(BitField(key, "none")), Upsert(BitField(key, name))>>)
  /\ UNCHANGED diffVars

(* POST /signal: a known module, a record with name, identifier, offset. *)
PostSignal ==
  /\ \E w \in Writers \ {"diffmap", "map_gui"}, field \in Posted : Save(w, <<Upsert(field)>>)
  /\ UNCHANGED diffVars

MappingStep ==
  \/ Reading \/ SolveLabel \/ SaveCandidate \/ Decline
  \/ Label \/ PostSignal
  \/ StoreStep /\ UNCHANGED diffVars

-----------------------------------------------------------------------------
(* What is posted is stored as it comes; the tools store fields of bits. *)
Stored(f) ==
  f \in Posted \/ (f.name \in Names /\ f.mask \subseteq Bits /\ f.mask # {})

MappingTypeOK ==
  /\ Cardinality(samples) <= MaxSamples
  /\ proposal = NoField \/ Stored(proposal)
  /\ \A f \in file : Stored(f)
  /\ \A f, g \in file : f # g => <<f.lid, f.off, f.name>> # <<g.lid, g.off, g.name>>
  /\ \A w \in Writers : jobs[w].at \in {"idle", "read", "replace"}

(***************************************************************************)
(* The field diffmap offers to save decodes every reading it was made from *)
(* to the label the user read for it.                                      *)
(***************************************************************************)
MappedFieldFitsSamples ==
  proposal # NoField =>
    \A s \in samples :
      /\ proposal.lid \in DOMAIN s.block
      /\ Fits(proposal, s.block[proposal.lid])
      /\ DecodeNamed(proposal, s.block[proposal.lid]) = s.label

=============================================================================
