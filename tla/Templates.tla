------------------------------ MODULE Templates ------------------------------
(***************************************************************************)
(* A template from both ends: the publisher that builds and packs it, and  *)
(* the call of a user that makes a site of it. They share no state here.   *)
(***************************************************************************)
EXTENDS TemplatePreparation, TemplateInstantiation

\* What is packed is what was built and tested, publish() leaves nothing behind that its caller
\* is not told of, and an instantiation ends with everything or with nothing
\* (TemplatePublisher.publish, instantiateTemplate).
TemplatesAsTested == PreparedIsTested /\ NothingLeftBehind /\ AllOrNothing
=============================================================================
