----------------------------- MODULE MCHostKey -----------------------------
(* Instances of HostKey for TLC. *)
EXTENDS HostKey

\* Two keys of one algorithm and one of another.
ThreeKeys == {"ed1", "ed2", "rsa"}
KeyAlgorithm == [k \in ThreeKeys |-> IF k = "rsa" THEN "rsa" ELSE "ed25519"]

\* Nothing; a record of another host, with and without its newline; a record
\* of ours; one of ours that was cut short.
GivenFiles == {<<>>,
    <<HostPart("other"), KeyPart("ed1"), Newline>>,
    <<HostPart("other"), KeyPart("ed1")>>,
    <<HostPart("ours"), KeyPart("ed1"), Newline>>,
    <<HostPart("ours")>>}
UserFiles == {<<>>, <<HostPart("ours"), KeyPart("ed1"), Newline>>}
EmptyFiles == {<<>>}
=============================================================================
