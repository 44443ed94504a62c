------------------------------ MODULE StepConfig ------------------------------
(***************************************************************************)
(* The configuration of a step (controllers/chaos/chaos.go, pod/pod.go):   *)
(* what the manifest does not say is taken from the file of the step's     *)
(* type, and what that does not say from common.yaml.                      *)
(*                                                                         *)
(* A config is a function from the names of settings to their values.  A   *)
(* value is a string that may be a list: a sequence of tokens, which       *)
(* commas separate, where a token is a sequence of words written without   *)
(* anything between them.                                                  *)
(***************************************************************************)
EXTENDS Sequences

CONSTANTS
  Common,   \* the contents of common.yaml
  TypeFiles \* per chaos type PopulateDefault knows, those of its own file

Empty     == <<>>
One(word) == <<<<word>>>>

\* Is s a sequence?
IsList(s) == s \in Seq({s[i] : i \in DOMAIN s})

ASSUME FilesAssumption ==
  \A file \in {Common} \cup {TypeFiles[type] : type \in DOMAIN TypeFiles} :
    \A key \in DOMAIN file.env : IsList(file.env[key])

\* Reading a map gives the empty string for a key it does not have.
Value(config, key) == IF key \in DOMAIN config THEN config[key] ELSE Empty

\* Writing a map.
Put(config, key, value) ==
  [k \in DOMAIN config \cup {key} |-> IF k = key THEN value ELSE config[k]]

\* Both maps: where they have the same key, the value of the upper one.
Over(upper, lower) ==
  [k \in DOMAIN upper \cup DOMAIN lower |-> IF k \in DOMAIN upper THEN upper[k] ELSE lower[k]]

OrElse(value, default) == IF value = Empty THEN default ELSE value

NoFile == [image |-> Empty, serviceAccountName |-> Empty, env |-> <<>>]

TypeFile(type) == IF type \in DOMAIN TypeFiles THEN TypeFiles[type] ELSE NoFile

\* Fault: common.yaml goes over the file of the type.
PopulateCommonLast(type) ==
  [image              |-> OrElse(TypeFile(type).image, Common.image),
   serviceAccountName |-> OrElse(TypeFile(type).serviceAccountName, Common.serviceAccountName),
   env                |-> Over(Common.env, TypeFile(type).env)]

PopulateDefault(type) ==
  [image              |-> OrElse(TypeFile(type).image, Common.image),
   serviceAccountName |-> OrElse(TypeFile(type).serviceAccountName, Common.serviceAccountName),
   env                |-> Over(TypeFile(type).env, Common.env)]

\* A setting the manifest gives is kept, even if it is empty; an image or an
\* account is not.
OverrideConfig(step) ==
  LET default == PopulateDefault(step.type)
  IN  [step EXCEPT !.config = Over(@, default.env),
                   !.image = OrElse(@, default.image),
                   !.serviceAccountName = OrElse(@, default.serviceAccountName)]
=============================================================================
