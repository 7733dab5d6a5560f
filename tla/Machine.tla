------------------------------ MODULE Machine -------------------------------
(***************************************************************************)
(* The machine that lifted code stands for: it fetches the instruction at  *)
(* pc and goes to one of its successors.  This is what the semantics       *)
(* functions and the decoders say of the PC, by instruction category.      *)
(***************************************************************************)
EXTENDS Naturals

CONSTANTS Images, Addresses

VARIABLES image, pc

\* What pc may be after an instruction.  An interrupt is raised with pc past
\* the instruction, and so is an error.
Successors(inst) ==
  CASE inst.category \in {"DirectJump", "DirectFunctionCall"} -> {inst.taken}
    [] inst.category \in {"ConditionalBranch", "PipelineBranch"}
                                  -> {inst.taken, inst.not_taken}
    [] inst.category \in {"IndirectJump", "IndirectFunctionCall",
                          "FunctionReturn"} -> Addresses
    [] inst.category = "NoBytes"  -> {}
    [] OTHER                      -> {inst.next}

MachineInit == image \in Images /\ pc \in Addresses

MachineStep == /\ pc \in DOMAIN image
               /\ pc' \in Successors(image[pc])
               /\ UNCHANGED image

MachineSpec == MachineInit /\ [][MachineStep]_<<image, pc>>
=============================================================================
