---------------------------- MODULE MCRepository ----------------------------
(***************************************************************************)
(* An instance of Repository for TLC: two remotes, each with a main and a  *)
(* testing branch, and a history of four commits in which c2 and d1 both   *)
(* follow c1, so that forced pushes leave the line of history.             *)
(*                                                                         *)
(* Which of them are signed is computed by Signatures, from a GPG key and  *)
(* an allowed signers file: c1 is signed with GPG, c2 and d1 with SSH, and *)
(* the signature of c3 was made for another commit.  Signatures itself is  *)
(* checked for all configurations of up to one GPG key file and two lines. *)
(***************************************************************************)
EXTENDS Verification

CONSTANTS c1, c2, c3, d1, k1, k2

MCAncestors ==
    [c \in Commits |-> CASE c = c1 -> {}
                         [] c = c2 -> {c1}
                         [] c = c3 -> {c1, c2}
                         [] c = d1 -> {c1}]

-----------------------------------------------------------------------------
\* The signature that git makes of this payload with the SSH key k.
SSHSignature(k, payload) ==
    [type |-> "ssh", version |-> 1, algorithm |-> "ssh-ed25519", namespace |-> "git",
     hash |-> "sha512", publicKey |-> k, by |-> k,
     over |-> [namespace |-> "git", hash |-> "sha512", payload |-> payload]]

MCLine(k) == [principals |-> <<"alice">>, options |-> <<>>, key |-> k]
MCSignature ==
    [c \in Commits |-> CASE c = c1 -> [type |-> "pgp", by |-> k1, over |-> c1]
                         [] c = c3 -> SSHSignature(k2, c2)
                         [] OTHER  -> SSHSignature(k2, c)]
MCConfig == [gpgPublicKeys |-> <<k1>>, allowedSigners |-> <<Blank, MCLine(k2)>>]
MCSigned == {c \in Commits : IsSigned(CommitObject(c), NewKeys(MCConfig))}
MCKeys == ShouldBeSigned(NewKeys(MCConfig))

-----------------------------------------------------------------------------
\* The lines, configurations and signatures for OnlyVouchedIsVerified.
Namespaces(patterns) == [name |-> "namespaces", value |-> patterns]
OtherOption == [name |-> "valid-before", value |-> <<"x">>]

MCOptions ==
    {<<>>, <<OtherOption>>, <<Namespaces(<<"git">>), OtherOption>>,
     <<Namespaces(<<"file">>), Namespaces(<<"git">>)>>}
      \union {<<Namespaces(v)>> : v \in
                {<<>>, <<"git">>, <<"*">>, <<"file">>, <<"file", "git">>, <<"git", "?">>, <<"">>}}

MCLines ==
    [principals: {<<"alice">>, <<"*", "alice">>, <<"", "alice">>, <<"alice", "?">>},
     options: MCOptions, key: {k1, k2, "certificate"}] \union {Blank}

MCConfigurations ==
    [gpgPublicKeys: {<<>>, <<k1>>, <<"invalid">>},
     allowedSigners: {Error, <<>>} \union {<<l>> : l \in MCLines}
                        \union {<<MCLine(k2), l>> : l \in MCLines}
                        \union {<<Blank, l>> : l \in MCLines}]

MCSignatures ==
    {[type |-> "none"]}
      \union [type: {"pgp"}, by: {k1, k2}, over: {c1, c2}]
      \union [type: {"ssh"}, version: {1, 2}, algorithm: {"ssh-ed25519", "ssh-rsa"},
              namespace: {"git", "file"}, hash: {"sha512", "md5"},
              publicKey: {k1, k2}, by: {k1, k2},
              over: [namespace: {"git", "file"}, hash: {"sha512"}, payload: {c1, c2}]]
MCSignedCommits ==
    {[payload |-> c1, signature |-> s] : s \in MCSignatures}
      \union {CommitObject(c) : c \in Commits}
=============================================================================
