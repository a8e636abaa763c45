---------------------------- MODULE MCPrizeClaim ----------------------------
(* PrizeClaim on small instances. *)
EXTENDS PrizeClaim, TLC

\* What tells two states apart where no clerk works: the redemption code and its issuing
\* enable nothing but each other then, and no property mentions them.
WithoutCode ==
    <<status, option, window, identity, checks, paidBy, overwritten, mirror, ledgerVars,
      attemptVars, bankVars, choosing, sweeping, answers, mirroring, mirrors>>

=============================================================================
