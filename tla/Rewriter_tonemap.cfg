CONSTANTS Jobs <- MCJobs
          Names <- MCNames
SPECIFICATION Spec
INVARIANT ToneMappedIffPlexDoes
CHECK_DEADLOCK FALSE
