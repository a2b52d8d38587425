----------------------------- MODULE MCPciConfig -----------------------------
(* Configuration writes for PciConfig: those that differ in what they touch. *)
EXTENDS PciConfig

KW(d, r, where, size, v) ==
  [dev |-> d, reg |-> r, where |-> where, size |-> size, val |-> v]

MCKernelReads == {[dev |-> "bridge", reg |-> "cmd"], [dev |-> "card", reg |-> "bar"],
                  [dev |-> "none", reg |-> "id"]}

\* COMMAND of the card and of the bridge as a halfword, and the last byte of
\* a base address.
MCKernelWrites == {KW("card", "cmd", 0, 2, {"MEM", "MASTER"}),
                   KW("bridge", "cmd", 0, 2, {"MEM", "MASTER", "IO"}),
                   KW("card", "bar", 3, 1, {"hi"})}

MCToolReads  == {[bus |-> 0, dev |-> "card", reg |-> "cmd"]}
MCToolWrites == {[bus |-> 0, dev |-> "card", reg |-> "bar", val |-> {"lo"}]}
=============================================================================
