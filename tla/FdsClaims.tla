------------------------------ MODULE FdsClaims ------------------------------
(***************************************************************************)
(* What the comments of components/libraries/fds say of it and it does not *)
(* keep.  ErasedPageIsSwap has a run; the others are violated in the       *)
(* states of Fds.cfg, too.                                                 *)
(***************************************************************************)
EXTENDS Fds

\* fds_internal_defs.h, on a start that finds a dirty swap page and an erased
\* page: "tag the swap as data (promote), an erased page as swap".  Whatever
\* fds_init tags as swap is an erased page.
ErasedPageIsSwap ==
    (status = "starting" /\ busy.kind = "swap") => flash[busy.phys] = ErasedPage

\* fds.c, in queue_process: "FDS_ERR_OPERATION_TIMEOUT - flash subsystem timed
\* out".  An operation that ends with that error has had a flash operation of
\* its own time out.
TimeoutIsItsOwn ==
    (loop.at = "event" /\ loop.ret = "timeout") => loop.own

\* fds.h, of fds_record_open: it "prevents garbage collection to run on the
\* virtual flash page [...], so that the contents of the memory pointed by
\* fields in fds_flash_record_t are guaranteed to remain unmodified as long as
\* the record is kept open".
OpenIsUnmodified ==
    opened # NotOpen => flash[opened.phys].rec[opened.slot].id = opened.id
=============================================================================
