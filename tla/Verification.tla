---------------------------- MODULE Verification ----------------------------
(***************************************************************************)
(* The Repository together with Signatures: the keys that New has read     *)
(* from the configuration, and the commits that these keys verify.         *)
(***************************************************************************)
EXTENDS Repository, Signatures

CONSTANTS
    Config,      \* the configuration of this machine
    Signature    \* the signature of each commit

\* The commit as it is in the repository.
CommitObject(c) == [payload |-> c, signature |-> Signature[c]]

\* New has read the configuration without an error, and Keys and Signed are what Update
\* makes of it.
ASSUME ConfigAssumption ==
    /\ Config \in Configurations
    /\ \A c \in Commits : CommitObject(c) \in SignedCommits
    /\ NewKeys(Config) # Error
    /\ Keys = ShouldBeSigned(NewKeys(Config))
    /\ Signed = {c \in Commits : IsSigned(CommitObject(c), NewKeys(Config))}

-----------------------------------------------------------------------------
\* "If services.comin.gpgPublicKeyPaths != [] or services.comin.sshAllowedSignersPath is
\* set, comin only evaluates commits signed by a configured commit-signing trust source"
\* (docs/howtos.md).  When Update comes to verify a commit, its verdict is the one of the
\* text of the configuration, through the parsing of the file, the emptiness of what was
\* parsed, which decides whether commits have to be signed at all, and the name of the
\* signer, of which "" means unsigned.  What the status of the repository then offers for
\* deployment, also after further turns, is vouched for by this machine's configuration.
OnlyVouchedIsVerified ==
    /\ pc = "verify" => VerdictIsVouched
    /\ status.selected # None /\ Verified(status) /\ IsConfigured(Config) =>
            Vouched(Config, CommitObject(status.selected))
=============================================================================
