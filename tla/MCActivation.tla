----------------------------- MODULE MCActivation -----------------------------
\* Two processes; deployments for execution, for nothing, or with the shutdown proof.
EXTENDS Activation

MCBatches == {{}, {"shutdown"}}
=============================================================================
