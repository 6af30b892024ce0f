----------------------------- MODULE Signatures -----------------------------
(***************************************************************************)
(* The verification of commit signatures (internal/repository/git.go and   *)
(* New in repository.go), as operators: what a configuration of GPG keys   *)
(* and an OpenSSH allowed signers file makes of a commit.                  *)
(*                                                                         *)
(* Texts are given by what their parsers tell apart.  A pattern is a name, *)
(* "*", "" or "?" (any text that the code refuses); the value of an option *)
(* is the sequence of its patterns, or <<>> when it is not in quotes.  A   *)
(* line of the file is Blank or a record                                   *)
(*    principals: the patterns of the first field                          *)
(*    options:    the option tokens, <<>> when there is no such field      *)
(*    key:        a public key, or one of KeyErrors                        *)
(*                                                                         *)
(* The cryptography is external: a signature is the key that made it and   *)
(* the data that it was made over.                                         *)
(***************************************************************************)
EXTENDS Integers, Sequences, Functions

CONSTANTS
    Configurations,  \* the configurations and
    SignedCommits,   \* the commits that the property is stated for
    Blank,       \* an empty line or a comment
    Error        \* the result of a function that returned an error

\* The names of the two hashes of an SSH signature.
Hashes == {"sha256", "sha512"}

\* The data that an SSH signature of this commit has to be made over.
GitData(commit, hash) == [namespace |-> "git", hash |-> hash, payload |-> commit.payload]

\* A file is a sequence of lines, and strings.Split finds at least one pattern in the first
\* field of a line.
ASSUME LinesAssumption ==
    \A config \in Configurations : config.allowedSigners # Error =>
        /\ DOMAIN config.allowedSigners \subseteq Nat
        /\ \A line \in Range(config.allowedSigners) \ {Blank} : 1 \in DOMAIN line.principals

\* In the code an error is a result of its own, beside the value.
ASSUME ErrorAssumption ==
    /\ Error \notin {"", "gpg"}
    /\ \A commit \in SignedCommits, hash \in Hashes : GitData(commit, hash) # Error

\* What ParseAuthorizedKey and the tests after it refuse: no key, no valid one, further
\* options, trailing data and certificates.
KeyErrors == {"missing", "invalid", "options", "trailing", "certificate"}

-----------------------------------------------------------------------------
(* The allowed signers file.                                               *)

isSupportedSSHPattern(pattern) == pattern \notin {"", "?"}

\* The first pattern names the signer, all of them must be supported.
sshPrincipalFromPatternList(patterns) ==
    IF \E p \in Range(patterns) : ~isSupportedSSHPattern(p) THEN Error ELSE patterns[1]

\* splitSSHOptionTokens and parseSSHOptionValue: an empty token, an option other than
\* namespaces and a value that is not quoted are errors.
IsNamespaces(option) == option.name = "namespaces" /\ option.value # <<>>

\* At most one option, and every namespace of it is supported; <<>> (nil in the code)
\* when there is no option.
sshNamespacesFromOptions(options) ==
    CASE options = <<>> -> <<>>
      [] /\ Len(options) = 1
         /\ IsNamespaces(options[1])
         /\ \A n \in Range(options[1].value) : isSupportedSSHPattern(n) -> options[1].value
      [] OTHER -> Error

\* The signer of a line: sshAllowedSigner, or Error.
Signer(line) ==
    LET principal == sshPrincipalFromPatternList(line.principals)
        namespaces == sshNamespacesFromOptions(line.options)
    IN  IF principal = Error \/ namespaces = Error \/ line.key \in KeyErrors
        THEN Error
        ELSE [principal |-> principal, key |-> line.key, namespaces |-> namespaces]

\* Mutant of parseSSHAllowedSigners: a file without signers is accepted.
parseSSHAllowedSignersMayBeEmpty(lines) ==
    LET entries == {i \in DOMAIN lines : lines[i] # Blank}
        signers == [i \in entries |-> Signer(lines[i])]
    IN  IF Error \in Range(signers) THEN Error ELSE signers

\* The signers, by the numbers of their lines.  One line that cannot be read refuses the
\* file, and so does a file without signers.
parseSSHAllowedSigners(lines) ==
    LET entries == {i \in DOMAIN lines : lines[i] # Blank}
        signers == [i \in entries |-> Signer(lines[i])]
    IN  IF Error \in Range(signers) \/ entries = {} THEN Error ELSE signers

allowsNamespace(signer, namespace) ==
    signer.namespaces = <<>> \/ {namespace, "*"} \cap Range(signer.namespaces) # {}

-----------------------------------------------------------------------------
(* The signature of a commit: type "none"; "pgp" or "ssh" with the key `by` *)
(* that made it and the data `over` which it was made.  An SSH signature    *)
(* also says in clear which key, namespace and hash it is of, with its      *)
(* version and algorithm.                                                   *)

\* The signed data of an SSH signature, Error for a hash other than these two; payload
\* is the commit without its signature.  (The reserved field is left out: it is copied.)
sshSignedData(namespace, hash, payload) ==
    IF hash \in Hashes
    THEN [namespace |-> namespace, hash |-> hash, payload |-> payload]
    ELSE Error

\* Whether the signature can be read: the version is 1 and the algorithm not one of
\* those based on SHA-1.
parseSSHSignature(s) == s.version = 1 /\ s.algorithm \notin {"ssh-rsa", "ssh-dss"}

\* The primary identity of a GPG key, which is assumed not to be empty.
PrimaryIdentity(k) == "gpg"

commitSignedByGPG(commit, gpgPublicKeys) ==
    LET s == commit.signature IN
    IF /\ s.type = "pgp" /\ s.over = commit.payload
       /\ s.by \in Range(gpgPublicKeys)
    THEN PrimaryIdentity(s.by)
    ELSE Error

\* The first signer whose key is the one of the signature and verifies it, for the
\* namespace git only.
commitSignedBySSH(commit, signers) ==
    LET s == commit.signature
        data == sshSignedData(s.namespace, s.hash, commit.payload)
        matching == {i \in DOMAIN signers :
                        /\ allowsNamespace(signers[i], s.namespace)
                        /\ signers[i].key = s.publicKey
                        /\ s.by = signers[i].key /\ s.over = data}
        first == CHOOSE i \in matching : \A j \in matching : i <= j
    IN  IF /\ s.type = "ssh" /\ parseSSHSignature(s)
           /\ s.namespace = "git"
           /\ data # Error
           /\ matching # {}
        THEN signers[first].principal
        ELSE Error

\* git.go's commitSignedBy: the name of the signer, "" with an error.
SignedBy(commit, gpgPublicKeys, signers) ==
    LET gpg == IF gpgPublicKeys # <<>> THEN commitSignedByGPG(commit, gpgPublicKeys) ELSE Error
        ssh == IF signers # <<>> THEN commitSignedBySSH(commit, signers) ELSE Error
    IN  CASE gpg # Error -> gpg
          [] gpg = Error /\ ssh # Error -> ssh
          [] OTHER -> ""

-----------------------------------------------------------------------------
(* A configuration: the GPG public key files, and the allowed signers file  *)
(* or Error when no path is set.                                            *)

\* New: the keys and the signers that it reads, Error when it fails to read one of them.
NewKeys(config) ==
    LET signers == IF config.allowedSigners = Error
                   THEN <<>> ELSE parseSSHAllowedSigners(config.allowedSigners)
    IN  IF Range(config.gpgPublicKeys) \cap KeyErrors # {} \/ signers = Error
        THEN Error
        ELSE [gpg |-> config.gpgPublicKeys, ssh |-> signers]

\* SelectedCommitShouldBeSigned and SelectedCommitSigned at the end of Update.
ShouldBeSigned(keys) == keys.gpg # <<>> \/ keys.ssh # <<>>
IsSigned(commit, keys) == SignedBy(commit, keys.gpg, keys.ssh) # ""

-----------------------------------------------------------------------------
(* Properties.                                                             *)

\* One of the sources of the configuration vouches for the commit: the text of the
\* configuration, as docs/howtos.md describes it, and not what was parsed from it.
Vouched(config, commit) ==
    LET s == commit.signature IN
    \/ s.type = "pgp" /\ s.over = commit.payload /\ s.by \in Range(config.gpgPublicKeys)
    \/ /\ s.type = "ssh" /\ s.version = 1 /\ s.algorithm \notin {"ssh-rsa", "ssh-dss"}
       /\ \E hash \in Hashes : s.hash = hash /\ s.over = GitData(commit, hash)
       /\ s.namespace = "git" /\ s.publicKey = s.by
       /\ config.allowedSigners # Error
       /\ \E line \in Range(config.allowedSigners) \ {Blank} :
             /\ line.key = s.by
             /\ \/ line.options = <<>>
                \/ \E n \in {"git", "*"} :
                       /\ Len(line.options) = 1
                       /\ line.options[1].name = "namespaces"
                       /\ n \in Range(line.options[1].value)

\* A source of signatures is configured.
IsConfigured(config) == config.gpgPublicKeys # <<>> \/ config.allowedSigners # Error

\* The verdict of Update on every commit is the one of the configuration's text, for all
\* configurations that New does not refuse: commits have to be signed when a source is
\* configured, and are then accepted only and always when a source vouches for them.
VerdictIsVouched ==
    \A config \in {c \in Configurations : NewKeys(c) # Error}, commit \in SignedCommits :
        LET keys == NewKeys(config)
        IN  (~ShouldBeSigned(keys) \/ IsSigned(commit, keys))
                <=> (~IsConfigured(config) \/ Vouched(config, commit))

=============================================================================
