---------------------------- MODULE MCAllocators ----------------------------
(***************************************************************************)
(* An arbiter, of the size in the configuration; allocators of three       *)
(* inputs and two outputs without priorities, and of two and two with.     *)
(* While one runs the others stay as they begin.                           *)
(***************************************************************************)
EXTENDS Arbiters

VARIABLES
  device,                                                    \* which it is
  alg, ptr, asked, inmatch, outmatch, phase, left, unserved  \* as in Allocators

allocatorVars == <<alg, ptr, asked, inmatch, outmatch, phase, left, unserved>>
allVars == <<device, allocatorVars, vars>>

\* Priorities are for the wavefront, and iterations for islip and pim.
Plain == INSTANCE Allocators WITH
  Ins <- 3, Outs <- 2, Iters <- 1, ArbType <- "round_robin", InPris <- {0}, OutPris <- {0}, WaitBound <- 6,
  Algs <- {"islip", "select", "pim", "loa", "max_size", "wavefront", "rr_wavefront",
           "separable_input_first", "separable_output_first"},
  reqs <- asked, wait <- unserved
Strong == INSTANCE Allocators WITH
  Ins <- 2, Outs <- 2, Iters <- 2, ArbType <- "matrix", InPris <- {0, 1}, OutPris <- {0, 1}, WaitBound <- 0,
  Algs <- {"islip", "pim", "max_size", "wavefront", "rr_wavefront"},
  reqs <- asked, wait <- unserved

ASSUME ArbiterAssumption /\ Plain!AllocatorAssumption /\ Strong!AllocatorAssumption

NoAllocator ==
  /\ alg = <<>> /\ ptr = <<>> /\ asked = <<>> /\ inmatch = <<>>
  /\ outmatch = <<>> /\ phase = <<>> /\ left = <<>> /\ unserved = <<>>

DevicesInit ==
  /\ Init
  /\ \/ device = "arbiter" /\ NoAllocator
     \/ device = "plain" /\ kind = "round_robin" /\ Plain!Init
     \/ device = "strong" /\ kind = "round_robin" /\ Strong!Init

\* The bound of 0 keeps the history of those with priorities short.
DevicesNext ==
  /\ \/ device = "arbiter" /\ Next /\ UNCHANGED allocatorVars
     \/ device = "plain" /\ Plain!Next /\ UNCHANGED vars
     \/ device = "strong" /\ Strong!Next /\ UNCHANGED vars
  /\ UNCHANGED device

DevicesSpec == DevicesInit /\ [][DevicesNext]_allVars

-----------------------------------------------------------------------------
\* What an allocator grants is what its algorithm promises: a matching among the requests
\* whose two halves agree (IQRouter forwards a flit by OutputAssigned and frees ports by
\* InputAssigned), of as many grants as fit or as can be, the better request first; and who
\* asks all the time is served within a bound, where the algorithm promises it.
AllocationsAsPromised ==
  /\ device = "plain"  => Plain!GrantsAsPromised /\ Plain!NoStarvation
  /\ device = "strong" => Strong!GrantsAsPromised

=============================================================================
