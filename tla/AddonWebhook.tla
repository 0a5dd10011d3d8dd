---------------------------- MODULE AddonWebhook ----------------------------
(***************************************************************************)
(* Admission of KubewardenAddons: the webhook's Default and whether the    *)
(* API server calls it.  The three validators accept everything.           *)
(***************************************************************************)

\* spec.version left empty, and what Default puts there: no release has that
\* name.
Unset == ""
Latest == "latest"

Default(version) == IF version = Unset THEN Latest ELSE version

\* The API group of the type, and the one the webhook's markers name.
Group == "addon.cluster.x-k8s.io"
WebhookGroup == "addons.cluster.x-k8s.io"

\* Mutant: the markers name the type's group, and Default is called.
AdmitDefaulted(version) == Default(version)

\* The API server calls the webhooks registered for the object's group.
Admit(version) == IF WebhookGroup = Group THEN Default(version) ELSE version
=============================================================================
