SPECIFICATION Spec
INVARIANT EvmReviewIsComplete
