-------------------------- MODULE MCMountOptions ---------------------------
(* Requests that MountOptions is checked with.                              *)
EXTENDS MountOptions

CONSTANT Absent   \* stands for a key the secret does not have

MCTexts == STRING

(* Numbers, texts with a scheme, texts with a comma, and credential files. *)
MCAtoi == [k \in {"-1", "0", "5", "7"} |->
  CASE k = "-1" -> -1 [] k = "0" -> 0 [] k = "5" -> 5 [] k = "7" -> 7]
MCWithScheme == {"https://cos", "https://iam"}
MCSplitAtCommas ==
  [o \in {Option("mime", <<"a,ro", "false">>), Option("use_sse,gid", <<"0">>)} |->
     IF o.name = "mime" THEN {Option("mime", <<"a">>), Option("ro", <<"false">>)}
     ELSE {Option("use_sse", <<>>), Option("gid", <<"0">>)}]
MCCredFiles == {"/var/lib/coscsi-config/pod", "/var/lib/coscsi-config/other"}

Lists(S, n) == UNION {[1..k -> S] : k \in 0..n}

(* Secrets with one of values[k] for each key k, and no options or up to n. *)
Secrets(values, options, n) ==
  LET keys == DOMAIN values
      all == {f \in [keys -> UNION {values[k] : k \in keys}] :
                \A k \in keys : f[k] \in values[k]}
      present(f) == Without(f, {k \in keys : f[k] = Absent})
  IN  {present(f) : f \in all}
        \cup {Put(present(f), "mountOptions", l) : f \in all, l \in Lists(options, n)}

RequestsOf(attribs, values, options, maxFlags, maxLines) ==
  [attrib : attribs, secret : Secrets(values, options, maxLines),
   flags : Lists(options, maxFlags), fsGroup : {"", "5"}, readOnlyMany : BOOLEAN]

(***************************************************************************)
(* s3fs: options of every kind, with a value that is good, bad, empty, the *)
(* name of the option, or has a second "="; custom ones with a comma.      *)
(***************************************************************************)
S3fsOptions ==
  {Option("ro", <<>>), Option("ro", <<"false">>), Option("ro", <<"ro">>),
   Option("gid", <<"0">>), Option("gid", <<"">>), Option("uid", <<"0">>),
   Option("uid", <<"", "0">>),
   Option("retries", <<"0">>), Option("stat_cache_expire", <<"-1">>),
   Option("sigv2", <<"">>), Option("url", <<"cos">>),
   Option("instance_name", <<"a", "b">>), Option("default_acl", <<"public">>),
   Option("cipher_suites", <<"default">>), Option("cipher_suites", <<"a">>),
   Option("use_sse", <<>>), Option("use_sse", <<"true">>), Option("mime", <<"a", "b">>),
   Option("", <<"a">>)} \cup DOMAIN MCSplitAtCommas
S3fsRequests ==
  RequestsOf({[cosEndpoint |-> "https://cos"]},
             [uid |-> {"7", Absent}, gid |-> {"7", Absent}, apiKey |-> {"key", Absent}],
             S3fsOptions, 1, 2)

(***************************************************************************)
(* Every way to choose the mounter, the endpoint and the authentication.   *)
(***************************************************************************)
AnyRequests ==
  RequestsOf(
    {[mounter |-> "rclone", cosEndpoint |-> "https://cos", locationConstraint |-> "us"],
     [mounter |-> "s3fs", cosEndpoint |-> "https://cos"],
     [mounter |-> "rclone"],
     [cosEndpoint |-> "cos"]},
    [uid |-> {"7", Absent}, gid |-> {"7", "x", Absent}, apiKey |-> {"key", Absent},
     mounter |-> {"rclone", Absent}, cosEndpoint |-> {"https://cos", Absent},
     iamEndpoint |-> {"iam", Absent}],
    {Option("gid", <<>>), Option("chunk_size", <<"a">>), Option("chunk_size", <<"b">>),
     Option("endpoint", <<"a", "b">>), Option("endpoint", <<"a">>)},
    1, 2)

AllRequests == S3fsRequests \cup AnyRequests

(* Requests with the options for the cache of s3fs. *)
CacheRequests ==
  RequestsOf({[cosEndpoint |-> "https://cos"]}, [use_cache |-> {"/tmp", Absent}],
             {Option("tmpdir", <<"/tmp">>)}, 1, 1)
============================================================================
