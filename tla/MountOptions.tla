---------------------------- MODULE MountOptions ----------------------------
(***************************************************************************)
(* What the FUSE process of a volume is told, from the request of the      *)
(* kubelet to the command line: NodePublishVolume (pkg/driver) completes   *)
(* the secret, NewMounter (pkg/mounter) merges the mount options of the    *)
(* StorageClass and of the secret with uid, gid and access mode, Mount     *)
(* posts them, and ParseMounterArgs on the host (cos-csi-mounter/server)   *)
(* checks them once more and makes the arguments.                          *)
(*                                                                         *)
(* A Go map is a function from its keys.  The text of an option is split   *)
(* at "=": "ro" is [name |-> "ro", val |-> <<>>], "gid=5" has the value    *)
(* <<"5">>, and "a=b=c" the value <<"b", "c">>.  White space and upper and *)
(* lower case are not modelled.                                            *)
(***************************************************************************)
EXTENDS Integers, Sequences, SequencesExt

CONSTANTS
  Texts,           \* what an option can be called or set to
  Requests,        \* the requests of the kubelet
  TLSCipherSuite,  \* "AESGCM" on Ubuntu, "" elsewhere
  DefaultIAM,      \* the IAM endpoint of the cluster
  Atoi,            \* the value of every text that is a number
  WithScheme,      \* texts that start with http:// or https://
  SplitAtCommas,   \* of every option with a comma in its text: its pieces
  PasswdFile,      \* the password file Mount has written
  CredFiles        \* files under the directory for credentials

ASSUME CredFileAssumption == PasswdFile \in CredFiles

VARIABLES
  req,      \* the request
  stage,    \* "request" | "mounter" | "mount" | "posted" | "started" | "rejected" | "invalid"
  secret,   \* secretMap, completed
  mounter,  \* the mounter object
  payload,  \* what is posted to the host
  cmd       \* the options of the FUSE process

vars == <<req, stage, secret, mounter, payload, cmd>>

-----------------------------------------------------------------------------
(***************************************************************************)
(* Maps and option texts.                                                  *)
(***************************************************************************)
Lookup(m, k) == IF k \in DOMAIN m THEN m[k] ELSE ""
Put(m, k, v) == [x \in DOMAIN m \cup {k} |-> IF x = k THEN v ELSE m[x]]
PutIf(c, m, k, v) == IF c THEN Put(m, k, v) ELSE m
Without(m, S) == [x \in DOMAIN m \ S |-> m[x]]
Over(m, n) == [x \in DOMAIN m \cup DOMAIN n |-> IF x \in DOMAIN m THEN m[x] ELSE n[x]]

Option(k, v) == [name |-> k, val |-> v]
OptionsOf(m) == {Option(k, m[k]) : k \in DOMAIN m}

EmptyMap == [k \in {} |-> ""]

OptionType == [name : Texts, val : Seq(Texts)]

(* A request has maps of texts, and its options are split at "=".          *)
ASSUME RequestsAssumption ==
  \A r \in Requests :
    /\ r.flags \in Seq(OptionType)
    /\ r.fsGroup \in Texts
    /\ r.readOnlyMany \in BOOLEAN
    /\ \A k \in DOMAIN r.attrib : r.attrib[k] \in Texts
    /\ \A k \in DOMAIN r.secret :
         r.secret[k] \in IF k = "mountOptions" THEN Seq(OptionType) ELSE Texts

-----------------------------------------------------------------------------
(***************************************************************************)
(* The fields of S3FSArgs and RCloneArgs on the host, and the s3fs options *)
(* the driver knows.                                                       *)
(***************************************************************************)
BoolOptions ==
  {"allow_other", "auto_cache", "disable_noobj_cache", "ibm_iam_auth",
   "kernel_cache", "ro", "sigv2", "sigv4", "use_path_request_style", "use_xattr"}

IntOptions ==
  {"connect_timeout", "gid", "max_background", "max_dirty_data",
   "max_stat_cache_size", "multipart_size", "multireq_max", "parallel_count",
   "readwrite_timeout", "retries", "stat_cache_expire", "uid"}

S3FSArgs ==
  BoolOptions \cup IntOptions \cup
  {"cipher_suites", "curldbg", "dbglevel", "default_acl", "endpoint",
   "ibm_iam_endpoint", "instance_name", "mp_umask", "passwd_file", "umask", "url"}

RCloneBools ==
  {"allow-other", "allow-root", "async-read", "daemon", "direct-io", "no-modtime",
   "read-only", "vfs-refresh", "write-back-cache"}

RCloneArgs ==
  RCloneBools \cup
  {"attr-timeout", "config", "daemon-timeout", "daemon-wait", "dir-cache-time",
   "gid", "log-file", "log-level", "poll-interval", "uid", "umask",
   "vfs-cache-max-age", "vfs-cache-max-size", "vfs-cache-min-free-space",
   "vfs-cache-mode", "vfs-cache-poll-interval", "vfs-disk-space-total-size",
   "vfs-read-ahead", "vfs-read-chunk-size", "vfs-read-chunk-size-limit",
   "vfs-read-chunk-streams", "vfs-read-wait", "vfs-write-back", "vfs-write-wait"}

GetKnownS3FSOptions == S3FSArgs \cup {"tmpdir", "use_cache"}

(* Texts has the names and values the driver writes; neither "true" nor    *)
(* the name of an option is a number; the pieces of an option are options. *)
ASSUME TextsAssumption ==
  /\ GetKnownS3FSOptions \cup RCloneArgs \subseteq Texts
  /\ {"", "true", "private", "002", "AESGCM", "writes", "/var/log/rclone.log"} \subseteq Texts
  /\ TLSCipherSuite \in {"", "AESGCM"}
  /\ DefaultIAM \in Texts /\ PasswdFile \in Texts
  /\ DOMAIN Atoi \cap (S3FSArgs \cup {"true"}) = {}
  /\ \A o \in DOMAIN SplitAtCommas : SplitAtCommas[o] \subseteq OptionType

-----------------------------------------------------------------------------
(***************************************************************************)
(* The s3fs mounter.                                                       *)
(***************************************************************************)

(* The options are taken one by one, the later over the earlier; an option *)
(* without value gets its name for a value, one without name is skipped.   *)
classifyMountOptions(options, m) ==
  LET add(n, o) ==
        PutIf(o.name # "", n, o.name, IF o.val = <<>> THEN <<o.name>> ELSE o.val)
  IN  FoldLeft(add, m, options)

(* Those of the StorageClass, then those of the secret.                    *)
MergedOptions(flags, sec) ==
  LET m == classifyMountOptions(flags, EmptyMap)
  IN  IF "mountOptions" \in DOMAIN sec
      THEN classifyMountOptions(sec["mountOptions"], m) ELSE m

(* Mutant: custom options go with the others. *)
KnownOf_All(m) == m

KnownOf(m) == Without(m, DOMAIN m \ GetKnownS3FSOptions)
UnknownOf(m) == Without(m, GetKnownS3FSOptions)

Set(m, k) == k \in DOMAIN m /\ m[k] # <<"">>

(* Mutant: uid is taken from gid before fsGroup is looked at. *)
Owned_FallbackFirst(m, sec, gid) ==
  LET m1 == PutIf(Lookup(sec, "uid") # "", m, "uid", <<Lookup(sec, "uid")>>)
      m2 == PutIf(Lookup(sec, "gid") # "", m1, "gid", <<Lookup(sec, "gid")>>)
      m3 == IF Set(m2, "gid") /\ ~Set(m2, "uid") THEN Put(m2, "uid", m2["gid"]) ELSE m2
  IN  PutIf(gid # "", m3, "gid", <<gid>>)

(* uid and gid of the secret go over those among the options, the fsGroup  *)
(* of the pod over both, and a gid alone is the uid too.                   *)
Owned(m, sec, gid) ==
  LET m1 == PutIf(Lookup(sec, "uid") # "", m, "uid", <<Lookup(sec, "uid")>>)
      m2 == PutIf(Lookup(sec, "gid") # "", m1, "gid", <<Lookup(sec, "gid")>>)
      m3 == PutIf(gid # "", m2, "gid", <<gid>>)
  IN  IF Set(m3, "gid") /\ ~Set(m3, "uid") THEN Put(m3, "uid", m3["gid"]) ELSE m3

(* Mutant: an option of the user goes over the access mode. *)
AccessMode_Weak(m, readOnly) ==
  PutIf(readOnly /\ "ro" \notin DOMAIN m, m, "ro", <<"true">>)

AccessMode(m, readOnly) == PutIf(readOnly, m, "ro", <<"true">>)

(* cipher_suites=default is dropped.                                       *)
CipherChecked(m) ==
  IF "cipher_suites" \in DOMAIN m /\ m["cipher_suites"] = <<"default">>
  THEN Without(m, {"cipher_suites"}) ELSE m

CachePaths(m, sec) ==
  LET m1 == PutIf("tmpdir" \in DOMAIN sec, m, "tmpdir", <<Lookup(sec, "tmpdir")>>)
  IN  PutIf("use_cache" \in DOMAIN sec, m1, "use_cache", <<Lookup(sec, "use_cache")>>)

(* An option whose value is its name is written without value; so is       *)
(* "ro=ro".                                                                *)
Written(m) == [k \in DOMAIN m |-> IF m[k] = <<k>> THEN <<>> ELSE m[k]]

buildMountOptionsSlice(m) ==
  Over(Written(m),
       IF TLSCipherSuite = "" THEN EmptyMap
       ELSE [k \in {"cipher_suites"} |-> <<TLSCipherSuite>>])

updateS3FSMountOptions(m, sec, gid, readOnly) ==
  CachePaths(Owned(AccessMode(CipherChecked(m), readOnly), sec, gid), sec)

(* The config file of rclone: the lines of the driver, and the options of  *)
(* the user after them.                                                    *)
NoLines == [own |-> {}, user |-> {}]

AuthType(sec) == IF Lookup(sec, "apiKey") # "" THEN "iam" ELSE "hmac"

NewS3fsMounter(r, sec) ==
  LET m == MergedOptions(r.flags, sec) IN
  [kind |-> "s3fs",
   AuthType |-> AuthType(sec),
   MountOptions |->
     buildMountOptionsSlice(
       updateS3FSMountOptions(KnownOf(m), sec, r.fsGroup, r.readOnlyMany)),
   AddMountParam |-> OptionsOf(Written(UnknownOf(m)))]

(* Mutant: the fixed options cannot be overridden. *)
Layers_FixedFirst(auth, chosen, fixed) == Over(auth, Over(fixed, chosen))

(* The fixed options can be overridden, those of the authentication not.   *)
Layers(auth, chosen, fixed) == Over(auth, Over(chosen, fixed))

(* The map posted to the host: the text after a second "=" is lost.        *)
S3fsPayload(mo, sec) ==
  LET fixed == [sigv2 |-> "true", use_path_request_style |-> "true",
                passwd_file |-> PasswdFile, url |-> Lookup(sec, "cosEndpoint"),
                allow_other |-> "true", mp_umask |-> "002"]
      loc == Lookup(sec, "locationConstraint")
      chosen == [k \in DOMAIN mo.MountOptions |->
        IF mo.MountOptions[k] = <<>> THEN "true" ELSE mo.MountOptions[k][1]]
      auth == IF mo.AuthType = "hmac" THEN [default_acl |-> "private"]
              ELSE [ibm_iam_auth |-> "true",
                    ibm_iam_endpoint |-> Lookup(sec, "iamEndpoint")]
  IN  [args |-> Layers(auth, chosen, PutIf(loc # "", fixed, "endpoint", loc)),
       extra |-> mo.AddMountParam,
       lines |-> NoLines]

-----------------------------------------------------------------------------
(***************************************************************************)
(* The rclone mounter: options are lines of its config file; uid, gid and  *)
(* the access mode are arguments.                                          *)
(***************************************************************************)
OneValue(m, options) ==
  LET add(n, o) == PutIf(Len(o.val) = 1, n, o.name, o.val)
  IN  FoldLeft(add, m, options)

(* Mutant: the StorageClass goes over the secret. *)
updateMountOptions_FlagsLast(flags, sec) ==
  IF "mountOptions" \notin DOMAIN sec THEN ToSet(flags)
  ELSE OptionsOf(OneValue(OneValue(EmptyMap, sec["mountOptions"]), flags))

(* Without options in the secret those of the StorageClass stay as they    *)
(* are; with some, both are merged and what is not name=value is dropped.  *)
updateMountOptions(flags, sec) ==
  IF "mountOptions" \notin DOMAIN sec THEN ToSet(flags)
  ELSE OptionsOf(OneValue(OneValue(EmptyMap, flags), sec["mountOptions"]))

NewRcloneMounter(r, sec) ==
  LET gid == IF r.fsGroup # "" THEN r.fsGroup ELSE Lookup(sec, "gid")
      uid == IF Lookup(sec, "uid") # "" THEN Lookup(sec, "uid") ELSE gid
  IN  [kind |-> "rclone",
       AuthType |-> AuthType(sec),
       GID |-> gid, UID |-> uid, ReadOnly |-> r.readOnlyMany,
       MountOptions |-> updateMountOptions(r.flags, sec)]

RcloneFixed ==
  Over([config |-> PasswdFile, daemon |-> "true"],
       [k \in {"allow-other", "log-file", "vfs-cache-mode"} |->
          CASE k = "allow-other" -> "true"
            [] k = "log-file" -> "/var/log/rclone.log"
            [] k = "vfs-cache-mode" -> "writes"])

(* The driver writes its own lines first and appends the options of the    *)
(* user as they are: an option with the name of one of its lines, such as  *)
(* "endpoint", gives a second line of that name.                           *)
createConfig(mo, sec) ==
  LET keys == IF mo.AuthType = "hmac"
              THEN [access_key_id |-> Lookup(sec, "accessKey"),
                    secret_access_key |-> Lookup(sec, "secretKey"),
                    env_auth |-> "true", v2_auth |-> "false"]
              ELSE [ibm_api_key |-> Lookup(sec, "apiKey"),
                    ibm_resource_instance_id |-> Lookup(sec, "serviceId"),
                    env_auth |-> "false", v2_auth |-> "true"]
      iam == Lookup(sec, "iamEndpoint")
      loc == Lookup(sec, "locationConstraint")
      fixed == [type |-> "s3", endpoint |-> Lookup(sec, "cosEndpoint"),
                provider |-> "IBMCOS"]
      some == PutIf(iam # "", Over(fixed, keys), "ibm_iam_endpoint", iam)
      all == PutIf(loc # "", some, "location_constraint", loc)
  IN  [own |-> {Option(k, <<all[k]>>) : k \in DOMAIN all}, user |-> mo.MountOptions]

RclonePayload(mo, sec) ==
  LET m1 == PutIf(mo.GID # "", RcloneFixed, "gid", mo.GID)
      m2 == PutIf(mo.UID # "", m1, "uid", mo.UID)
  IN  [args |-> PutIf(mo.ReadOnly, m2, "read-only", "true"),
       extra |-> {},
       lines |-> createConfig(mo, sec)]

-----------------------------------------------------------------------------
(***************************************************************************)
(* The host.                                                               *)
(***************************************************************************)

(* A field that is not empty has a value of its kind.                      *)
ValidValue(k, v) ==
  \/ v = "" /\ k \notin {"url", "passwd_file"}
  \/ /\ k \in BoolOptions => v \in {"true", "false"}
     /\ k \in IntOptions => v \in DOMAIN Atoi
     /\ k = "retries" => Atoi[v] >= 1
     /\ k = "stat_cache_expire" => Atoi[v] >= 0
     /\ k = "curldbg" => v \in {"body", "normal"}
     /\ k \in {"url", "ibm_iam_endpoint"} => v \in WithScheme
     /\ k = "passwd_file" => v \in CredFiles

(* strictDecodeForUnknownFields, then Validate.                            *)
ValidS3FS(args) ==
  /\ DOMAIN args \subseteq S3FSArgs
  /\ \A k \in DOMAIN args : ValidValue(k, args[k])

ValidRClone(args) ==
  /\ DOMAIN args \subseteq RCloneArgs
  /\ \A k \in DOMAIN args \cap RCloneBools : args[k] \in {"", "true", "false"}
  /\ Lookup(args, "config") \in CredFiles

Validate ==
  IF mounter.kind = "rclone" THEN ValidRClone(payload.args) ELSE ValidS3FS(payload.args)

(* The custom options travel as one text, joined by commas: one that has a *)
(* comma itself comes out in pieces.                                       *)
Pieces(o) == IF o \in DOMAIN SplitAtCommas THEN SplitAtCommas[o] ELSE {o}

(* "true" makes an option without value; empty values were omitted, and    *)
(* cipher_suites=default is skipped.  ibm_iam_auth comes before            *)
(* ibm_iam_endpoint, the others in any order.                              *)
PopulateArgsSlice(args, extra) ==
  LET given == {k \in DOMAIN args :
        args[k] # "" /\ ~(k = "cipher_suites" /\ args[k] = "default")}
      text(k) == Option(k, IF args[k] = "true" THEN <<>> ELSE <<args[k]>>)
      first(k) == IF k \in given THEN <<text(k)>> ELSE <<>>
  IN  [lead |-> first("ibm_iam_auth") \o first("ibm_iam_endpoint"),
       rest |-> {text(k) : k \in given \ {"ibm_iam_auth", "ibm_iam_endpoint"}},
       extra |-> UNION {Pieces(o) : o \in extra},
       lines |-> NoLines]

(* For rclone every field is an argument --name=value.                     *)
RcloneArgsSlice(args, lines) ==
  [lead |-> <<>>,
   rest |-> {Option(k, <<args[k]>>) : k \in DOMAIN args},
   extra |-> {},
   lines |-> lines]

-----------------------------------------------------------------------------
(***************************************************************************)
(* The request on its way.                                                 *)
(***************************************************************************)
NoCmd == [lead |-> <<>>, rest |-> {}, extra |-> {}, lines |-> NoLines]
NoPayload == [args |-> EmptyMap, extra |-> {}, lines |-> NoLines]

Init ==
  /\ req \in Requests
  /\ stage = "request"
  /\ secret = req.secret
  /\ mounter = [kind |-> "none"]
  /\ payload = NoPayload
  /\ cmd = NoCmd

(* Endpoint and location come from the StorageClass when the secret has    *)
(* none.                                                                   *)
Completed(r) ==
  LET or(k, d) == IF Lookup(r.secret, k) # "" THEN r.secret[k] ELSE d
      s1 == Put(r.secret, "cosEndpoint", or("cosEndpoint", Lookup(r.attrib, "cosEndpoint")))
      s2 == Put(s1, "locationConstraint",
                or("locationConstraint", Lookup(r.attrib, "locationConstraint")))
  IN  Put(s2, "iamEndpoint", or("iamEndpoint", DefaultIAM))

(* Mutant: the endpoint is not checked. *)
NodePublishVolume_NoCheck ==
  /\ stage = "request"
  /\ secret' = Completed(req)
  /\ stage' = "mounter"
  /\ UNCHANGED <<req, mounter, payload, cmd>>

NodePublishVolume ==
  /\ stage = "request"
  /\ secret' = Completed(req)
  /\ stage' = IF secret'["cosEndpoint"] = "" THEN "invalid" ELSE "mounter"
  /\ UNCHANGED <<req, mounter, payload, cmd>>

(* The StorageClass chooses the mounter, then the secret; s3fs otherwise.  *)
MounterKind(r, sec) ==
  IF "mounter" \in DOMAIN r.attrib THEN r.attrib["mounter"] ELSE Lookup(sec, "mounter")

NewMounter ==
  /\ stage = "mounter"
  /\ mounter' = IF MounterKind(req, secret) = "rclone"
                THEN NewRcloneMounter(req, secret) ELSE NewS3fsMounter(req, secret)
  /\ stage' = "mount"
  /\ UNCHANGED <<req, secret, payload, cmd>>

Mount ==
  /\ stage = "mount"
  /\ payload' = IF mounter.kind = "rclone" THEN RclonePayload(mounter, secret)
                ELSE S3fsPayload(mounter, secret)
  /\ stage' = "posted"
  /\ UNCHANGED <<req, secret, mounter, cmd>>

ParseMounterArgs ==
  /\ stage = "posted"
  /\ Validate
  /\ cmd' = IF mounter.kind = "rclone"
            THEN RcloneArgsSlice(payload.args, payload.lines)
            ELSE PopulateArgsSlice(payload.args, payload.extra)
  /\ stage' = "started"
  /\ UNCHANGED <<req, secret, mounter, payload>>

ParseMounterArgsErr ==
  /\ stage = "posted"
  /\ ~Validate
  /\ stage' = "rejected"
  /\ UNCHANGED <<req, secret, mounter, payload, cmd>>

Next ==
  NodePublishVolume \/ NewMounter \/ Mount \/ ParseMounterArgs \/ ParseMounterArgsErr

Spec == Init /\ [][Next]_vars

-----------------------------------------------------------------------------
(***************************************************************************)
(* Properties.                                                             *)
(***************************************************************************)

(* The command line, and the texts on it that came out of a custom option  *)
(* with a comma.                                                           *)
Given == ToSet(cmd.lead) \cup cmd.rest \cup cmd.extra
GivenFor(k) == {o \in Given : o.name = k}
Spliced == UNION {SplitAtCommas[o] : o \in payload.extra \cap DOMAIN SplitAtCommas}

(* Option k is given with the texts of T, and with no other but for those  *)
(* a comma has let in.                                                     *)
Says(k, T) == T \subseteq GivenFor(k) /\ GivenFor(k) \subseteq T \cup Spliced

(* Everything the user wrote as mount options, the latest last.            *)
Mentions ==
  req.flags \o IF "mountOptions" \in DOMAIN req.secret
               THEN req.secret["mountOptions"] ELSE <<>>
Mentioned == {Mentions[i].name : i \in DOMAIN Mentions} \ {""}
LastMention(k) ==
  Mentions[CHOOSE i \in DOMAIN Mentions :
    /\ Mentions[i].name = k
    /\ \A j \in DOMAIN Mentions : Mentions[j].name = k => j <= i]

(* The type of every variable: what is posted has a text for every field,  *)
(* and the options of the authentication lead.                             *)
TypeOK ==
  /\ req \in Requests
  /\ stage \in {"request", "mounter", "mount", "posted", "started", "rejected", "invalid"}
  /\ mounter.kind \in {"none", "s3fs", "rclone"}
  /\ \A k \in DOMAIN payload.args : payload.args[k] \in Texts
  /\ \A o \in Given : o.name \in Texts /\ o.val \in Seq(Texts)
  /\ \A i \in DOMAIN cmd.lead : cmd.lead[i].name \in {"ibm_iam_auth", "ibm_iam_endpoint"}
  /\ stage = "started" => mounter.kind # "none" /\ secret["cosEndpoint"] # ""

(* A volume with access mode ReadOnlyMany is mounted read-only, whatever   *)
(* options the StorageClass and the secret give; only a comma inside a     *)
(* custom option can put a second text for "ro" beside that of the driver. *)
ReadOnlyHolds ==
  stage = "started" /\ req.readOnlyMany =>
    \/ mounter.kind = "s3fs" /\ Says("ro", {Option("ro", <<>>)})
    \/ mounter.kind = "rclone" /\ GivenFor("read-only") = {Option("read-only", <<"true">>)}

FirstSet(a, b, c) == IF a # "" THEN a ELSE IF b # "" THEN b ELSE c

Wish(k) ==
  IF mounter.kind = "s3fs" /\ k \in Mentioned /\ LastMention(k).val # <<>>
  THEN LastMention(k).val[1] ELSE ""

(* "uid==x" is a uid to the driver, and loses its text on the way.         *)
LostUid ==
  mounter.kind = "s3fs" /\ "uid" \in Mentioned /\ Len(LastMention("uid").val) > 1

WishedGid == FirstSet(req.fsGroup, Lookup(req.secret, "gid"), Wish("gid"))
WishedUid ==
  FirstSet(Lookup(req.secret, "uid"), Wish("uid"), IF LostUid THEN "" ELSE WishedGid)

(* Files belong to the group of the pod, else to the gid of the secret,    *)
(* else to that of the options; and to the uid of the secret or of the     *)
(* options, else to the user with the number of that very group (not when  *)
(* a uid was given and got lost).  Only a comma inside a custom option can *)
(* add to what is said of the owner.                                       *)
OwnerHolds ==
  stage = "started" =>
    \A w \in {<<"gid", WishedGid>>, <<"uid", WishedUid>>} :
      Says(w[1], IF w[2] = "" THEN {} ELSE {Option(w[1], <<w[2]>>)})

(* Options that are decided elsewhere.                                     *)
Governed ==
  {"gid", "uid"}
    \cup (IF req.readOnlyMany THEN {"ro"} ELSE {})
    \cup (IF AuthType(req.secret) = "hmac" THEN {"default_acl"}
          ELSE {"ibm_iam_auth", "ibm_iam_endpoint"})

(* The text of an option on its way.                                       *)
Sent(o) == IF o.val \in {<<>>, <<o.name>>} THEN Option(o.name, <<>>) ELSE o

(* Options whose text comes through.  A known one must not have a second   *)
(* "=", which is where its text ends for the host, and a custom one no     *)
(* comma, where it is split.  Nothing is said of cipher_suites=default: it *)
(* is dropped so that s3fs takes its own defaults, and then the cipher     *)
(* suite of the node is put in its place.                                  *)
Plain(o) ==
  IF o.name \in GetKnownS3FSOptions
  THEN Len(o.val) <= 1 /\ o # Option("cipher_suites", <<"default">>)
  ELSE Sent(o) \notin DOMAIN SplitAtCommas

(* What a plain option should become.  Of a known one "true" is the option *)
(* without value, and an empty value leaves it out.                        *)
Expected(o) ==
  IF o.name \notin GetKnownS3FSOptions THEN {Sent(o)}
  ELSE CASE Sent(o).val = <<"">> -> {}
         [] Sent(o).val = <<"true">> -> {Option(o.name, <<>>)}
         [] OTHER -> {Sent(o)}

(* The last mention of an option wins, the secret over the StorageClass    *)
(* and both over the defaults of the driver, and it is given once, with    *)
(* its own text, at the end of the way through the map, the texts and the  *)
(* host.  This is said of the options that are plain.                      *)
LastMentionWins ==
  stage = "started" /\ mounter.kind = "s3fs" =>
    \A k \in Mentioned \ Governed :
      Plain(LastMention(k)) => Says(k, Expected(LastMention(k)))

(* With options in the secret, the config file of rclone has, after the    *)
(* lines of the driver, one line for each name the user gives, and the     *)
(* secret's where the secret has one.  Whatever they say, the driver's own *)
(* line has the endpoint of the secret, else of the StorageClass: a name   *)
(* has two lines only if it is one of the driver's, and the user's is last.*)
SecretLineWins ==
  stage = "started" /\ mounter.kind = "rclone" /\ "mountOptions" \in DOMAIN req.secret =>
    LET wellFormed == {i \in DOMAIN Mentions : Len(Mentions[i].val) = 1}
        endpoint == FirstSet(Lookup(req.secret, "cosEndpoint"),
                             Lookup(req.attrib, "cosEndpoint"), "")
    IN
    /\ cmd.lines.user = {Mentions[i] : i \in {i \in wellFormed :
         \A j \in wellFormed : Mentions[j].name = Mentions[i].name => j <= i}}
    /\ {o \in cmd.lines.own : o.name = "endpoint"} = {Option("endpoint", <<endpoint>>)}

(* The options to blame for a rejection.                                   *)
Blamed ==
  \/ \E k \in Mentioned \cap GetKnownS3FSOptions :
       \/ k \in {"tmpdir", "use_cache"}
       \/ LET v == LastMention(k).val
          IN  ~ValidValue(k, IF v \in {<<>>, <<k>>} THEN "true" ELSE v[1])
  \/ {"tmpdir", "use_cache"} \cap DOMAIN req.secret # {}
  \/ Lookup(secret, "cosEndpoint") \notin WithScheme
  \/ AuthType(secret) = "iam" /\ ~ValidValue("ibm_iam_endpoint", secret["iamEndpoint"])
  \/ \E v \in {req.fsGroup, Lookup(req.secret, "gid"), Lookup(req.secret, "uid")} :
       ~ValidValue("gid", v)

(* The host rejects an s3fs mount only for a known option with a bad       *)
(* value; a custom option never does, and rclone is never rejected.        *)
CustomOptionNeverRejects ==
  stage = "rejected" => mounter.kind = "s3fs" /\ Blamed

-----------------------------------------------------------------------------
(***************************************************************************)
(* What a comment says of the code and the code does not do.               *)
(***************************************************************************)

(* "known (to cos-csi-mounter systemd service)": the host decodes every    *)
(* option the driver takes for known.                                      *)
KnownToService ==
  stage = "posted" /\ mounter.kind = "s3fs" => DOMAIN payload.args \subseteq S3FSArgs
=============================================================================
